---- MODULE Spec2Model ----
(***************************************************************************)
(* Challenge lifecycle and escrow engine of gametribe-backend              *)
(* (controllers/challengeControllerV2.js).                                 *)
(*                                                                         *)
(* Every Express handler is an async function: it runs synchronously up to *)
(* an `await` on a store operation and resumes when that operation has    *)
(* completed.  A request is therefore a small process whose pc names the   *)
(* store operation it is about to perform; one step performs that          *)
(* operation atomically on the store and runs the synchronous code that    *)
(* follows it, up to the next await (or the response).  Steps of different *)
(* requests interleave freely: there is no lock and no transaction in the  *)
(* handlers.                                                               *)
(***************************************************************************)
EXTENDS Integers, Sequences, FiniteSets, TLC

(* ------------------------------ bounds -------------------------------- *)
MaxReq == 2            \* requests issued in one behaviour
MaxChallenges == 2     \* challenge ids that can be generated
MaxSessions == 3       \* session tokens that can be generated
MaxScore == 1          \* scores are drawn from 0..MaxScore
MaxFaults == 2         \* store operations that may fail in one behaviour
MaxTicks == 1          \* clock advances in one behaviour

(* ------------------------- program constants -------------------------- *)
MinBet == 10
MaxBet == 10000
ChallengeTTL == 24 * 60 * 60 * 1000
SessionTTL == 30 * 60 * 1000
Null == -1             \* JavaScript null / undefined in an integer slot

Users == {"A", "B", "C"}
Players == {"A", "B"}      \* the users who create challenges
Games == {"g1", "g2"}
ChallengeIds == 1..MaxChallenges
Tokens == 1..MaxSessions
Scores == 0..MaxScore
ReqIds == 1..MaxReq
BetInputs == {MinBet - 1, MinBet, MaxBet + 1}
InitBalance == 2 * MinBet
TickSteps == {SessionTTL + 1, ChallengeTTL + 1}

VARIABLES
  challenges,   \* bettingChallenges/{challengeId}
  wallet,       \* users/{uid}/wallet: amount, escrowBalance
  txns,         \* users/{uid}/wallet/transactions, in push-key order
  userIndex,    \* userChallenges/{uid}/{challengeId} -> status
  sessions,     \* gameSessions/{sessionToken}
  req,          \* the requests: inputs, position, locals, response
  bg,           \* index updates started without await, not yet applied
  nextId,       \* next challenge id generateChallengeId returns
  nextToken,    \* next session token crypto.randomBytes returns
  now,          \* Date.now()
  ticks,        \* clock advances so far
  faults,       \* store operations that have failed so far
  chat          \* challenges/{challengeId}: the chat room of a challenge

vars == <<challenges, wallet, txns, userIndex, sessions, req, bg,
          nextId, nextToken, now, ticks, faults, chat>>

(* ------------------------------ records ------------------------------- *)
NoChallenge ==
  [status |-> "absent", challengerId |-> "none", challengedId |-> "none",
   gameId |-> "none", betAmount |-> Null, createdAt |-> Null,
   expiresAt |-> Null, acceptedAt |-> Null, rejectedAt |-> Null,
   cancelledAt |-> Null, completedAt |-> Null, challengerScore |-> Null,
   challengedScore |-> Null, winnerId |-> "none"]

NoSession ==
  [challengeId |-> Null, userId |-> "none", createdAt |-> Null,
   expiresAt |-> Null]

IdleReq ==
  [op |-> "none", pc |-> "idle", uid |-> "none", challengeId |-> Null,
   challengedId |-> "none", gameId |-> "none", bet |-> Null, score |-> Null,
   token |-> Null, todo |-> <<>>, data |-> NoChallenge, bal |-> Null,
   esc |-> Null, at |-> Null, code |-> 0, err |-> "none",
   existing |-> Null, thrownAt |-> "none", log |-> "none",
   events |-> <<>>, kind |-> "none", opponentName |-> "none",
   io |-> FALSE, relay |-> FALSE, reaction |-> "none", message |-> "none",
   action |-> "none", reactions |-> {}, seen |-> <<>>, listed |-> <<>>,
   messages |-> <<>>, writes |-> {}]

Exists(c) == c.status # "absent"

(* challenges/{challengeId} holds no record: challengeSnap.exists() is
   false; interactions, messages and reactions are its children *)
NoRoom ==
  [status |-> "absent", challengerId |-> "none", challengedId |-> "none",
   interactions |-> <<>>, messages |-> <<>>, reactions |-> {}]

(* users/{uid} holds no record: userSnap.val() is null *)
NoUser == [amount |-> Null, escrowBalance |-> Null]

(* challengeData of createChallenge *)
NewChallenge(challenger, challenged, game, b, t) ==
  [NoChallenge EXCEPT !.status = "pending", !.challengerId = challenger,
     !.challengedId = challenged, !.gameId = game, !.betAmount = b,
     !.createdAt = t, !.expiresAt = t + ChallengeTTL]

(* a hold that debits the balance and forgets the escrow *)
HoldWallet_NoEscrow(bal, esc, b) == [amount |-> bal - b, escrowBalance |-> esc]

(* the wallet update of a hold, computed from the balances that were read *)
HoldWallet(bal, esc, b) == [amount |-> bal - b, escrowBalance |-> esc + b]

(* the transaction record written after a hold *)
EscrowTxn(b, bal, cid, kind) ==
  [amount |-> 0 - b, type |-> "escrow", balanceBefore |-> bal,
   balanceAfter |-> bal - b, challengeId |-> cid, kind |-> kind]

(* the two participants of record c are u and v, in either direction *)
SamePair(c, u, v) ==
  \/ c.challengerId = u /\ c.challengedId = v
  \/ c.challengerId = v /\ c.challengedId = u

(* JavaScript !x for a score slot: null, undefined and 0 are falsy *)
Falsy(x) == x = Null \/ x = 0

RECURSIVE SortedIds(_)
SortedIds(S) ==
  IF S = {} THEN <<>>
  ELSE LET m == CHOOSE x \in S : \A y \in S : x <= y
       IN <<m>> \o SortedIds(S \ {m})

(* utils/challengeIndexer *)
getUserChallengeIds(u, status) ==
  SortedIds({c \in ChallengeIds : userIndex[u][c] = status})

IndexWith(idx, cid, challenger, challenged, status) ==
  [u \in Users |->
     IF u \in {challenger, challenged}
     THEN [idx[u] EXCEPT ![cid] = status] ELSE idx[u]]

(* ------------------------------- state -------------------------------- *)
InFlight == {r \in ReqIds : req[r].pc \notin {"idle", "done"}}

Respond(r, code, err) ==
  req' = [req EXCEPT ![r].pc = "done", ![r].code = code, ![r].err = err]

Goto(r, pc) == req' = [req EXCEPT ![r].pc = pc]

(* services/socketService: one call of an emit function is one relayEmit,
   i.e. one POST to the relay, started and not awaited *)
Event(type) == [type |-> type, sent |-> "pending"]

(* the handler emits evs and answers with success *)
RespondEmitting(r, evs) ==
  req' = [req EXCEPT ![r].pc = "done", ![r].code = 200, ![r].err = "none",
                     ![r].events = evs]

(* The store between requests.  Every initial state is one the handlers
   reach from the empty store by running to completion, built with the
   handlers' own operators: nothing yet; A has challenged B (pending); B
   has accepted; both have started a game session; A has submitted a score
   and B has started two sessions.  One more such state, "replay", is the
   initial state of SpecReplay: A has started two sessions and submitted a
   score with the first, B has started one. *)
Stages == {"empty", "pending", "accepted", "playing", "halfway"}

StageChallenge(stage, sc) ==
  LET p == NewChallenge("A", "B", "g1", MinBet, 0)
      a == [p EXCEPT !.status = "accepted", !.acceptedAt = 0]
  IN CASE stage = "empty" -> NoChallenge
       [] stage = "pending" -> p
       [] stage \in {"halfway", "replay"} -> [a EXCEPT !.challengerScore = sc]
       [] OTHER -> a

StageSession(stage, t) ==
  LET ses(u) == [challengeId |-> 1, userId |-> u, createdAt |-> 0,
                 expiresAt |-> SessionTTL]
  IN CASE stage = "playing" /\ t = 1 -> ses("A")
       [] stage = "playing" /\ t = 2 -> ses("B")
       [] stage = "halfway" /\ t \in {2, 3} -> ses("B")
       [] stage = "replay" /\ t = 2 -> ses("A")
       [] stage = "replay" /\ t = 3 -> ses("B")
       [] OTHER -> NoSession

StageHeld(stage, u) ==
  \/ u = "A" /\ stage # "empty"
  \/ u = "B" /\ stage \in {"accepted", "playing", "halfway", "replay"}

InitStage(stage, sc) ==
  /\ challenges = [c \in ChallengeIds |->
                     IF c = 1 THEN StageChallenge(stage, sc) ELSE NoChallenge]
  /\ wallet = [u \in Users |->
                 IF StageHeld(stage, u) THEN HoldWallet(InitBalance, 0, MinBet)
                 ELSE [amount |-> InitBalance, escrowBalance |-> 0]]
  /\ txns = [u \in Users |->
               IF StageHeld(stage, u)
               THEN <<EscrowTxn(MinBet, InitBalance, 1,
                                IF u = "A" THEN "challenge_created"
                                ELSE "challenge_accepted")>>
               ELSE <<>>]
  /\ userIndex = [u \in Users |-> [c \in ChallengeIds |->
                    IF c = 1 /\ u \in {"A", "B"} /\ stage # "empty"
                    THEN StageChallenge(stage, sc).status ELSE "none"]]
  /\ sessions = [t \in Tokens |-> StageSession(stage, t)]
  /\ nextId = IF stage = "empty" THEN 1 ELSE 2
  /\ nextToken = CASE stage = "playing" -> 3
                   [] stage \in {"halfway", "replay"} -> 4
                   [] OTHER -> 1

Init ==
  /\ \E stage \in Stages, sc \in Scores :
       /\ stage # "halfway" => sc = 0
       /\ InitStage(stage, sc)
  /\ req = [r \in ReqIds |-> IdleReq]
  /\ bg = {}
  /\ now = 0
  /\ ticks = 0
  /\ faults = 0
  /\ chat = [c \in ChallengeIds |-> NoRoom]

InitReplay ==
  /\ \E sc \in Scores : InitStage("replay", sc)
  /\ req = [r \in ReqIds |-> IdleReq]
  /\ bg = {}
  /\ now = 0
  /\ ticks = 0
  /\ faults = 0
  /\ chat = [c \in ChallengeIds |-> NoRoom]

(* B has accepted A's challenge and both have started a game session *)
InitPlaying ==
  /\ InitStage("playing", 0)
  /\ req = [r \in ReqIds |-> IdleReq]
  /\ bg = {}
  /\ now = 0
  /\ ticks = 0
  /\ faults = 0
  /\ chat = [c \in ChallengeIds |-> NoRoom]

(* Stores in which a participant has no users/ record ("none"), holds less
   than the smallest bet ("short") or holds InitBalance ("enough"): nothing
   yet, or A has challenged B.  createChallenge does not look at the
   challenged user's record, so B may have none. *)
Funds == {"none", "short", "enough"}

FundsWallet(f, held) ==
  CASE f = "none" -> NoUser
    [] f = "short" -> [amount |-> MinBet - 1,
                       escrowBalance |-> IF held THEN MinBet ELSE 0]
    [] OTHER -> IF held THEN HoldWallet(InitBalance, 0, MinBet)
                ELSE [amount |-> InitBalance, escrowBalance |-> 0]

InitFunds ==
  /\ \E stage \in {"empty", "pending"}, fa \in Funds, fb \in Funds :
       LET held == stage = "pending"
           wa == FundsWallet(fa, held)
       IN /\ held => fa # "none"
          /\ challenges = [c \in ChallengeIds |->
                IF c = 1 THEN StageChallenge(stage, 0) ELSE NoChallenge]
          /\ wallet = [u \in Users |->
                CASE u = "A" -> wa
                  [] u = "B" -> FundsWallet(fb, FALSE)
                  [] OTHER -> [amount |-> InitBalance, escrowBalance |-> 0]]
          /\ txns = [u \in Users |->
                IF u = "A" /\ held
                THEN <<EscrowTxn(MinBet, wa.amount + MinBet, 1,
                                 "challenge_created")>>
                ELSE <<>>]
          /\ userIndex = [u \in Users |-> [c \in ChallengeIds |->
                IF c = 1 /\ u \in {"A", "B"} /\ held
                THEN "pending" ELSE "none"]]
          /\ nextId = IF held THEN 2 ELSE 1
  /\ sessions = [t \in Tokens |-> NoSession]
  /\ nextToken = 1
  /\ req = [r \in ReqIds |-> IdleReq]
  /\ bg = {}
  /\ now = 0
  /\ ticks = 0
  /\ faults = 0
  /\ chat = [c \in ChallengeIds |-> NoRoom]

(* --------------------------- request intake --------------------------- *)
(* the ids a request can name: those generated so far and one unknown *)
KnownIds == {c \in ChallengeIds : c <= nextId}
KnownTokens == {t \in Tokens : t <= nextToken}

(* slot r takes the next request; at most k requests are in flight *)
CanBegin(r, k) ==
  /\ req[r].pc = "idle"
  /\ \A q \in ReqIds : q < r => req[q].pc # "idle"
  /\ Cardinality(InFlight) < k

storeVars == <<challenges, wallet, txns, userIndex, sessions>>
envVars == <<now, ticks, faults, chat>>

(* ------------------------- createChallenge ---------------------------- *)
PendingCreates ==
  {q \in ReqIds : req[q].op = "create" /\ req[q].pc \notin {"idle", "done"}
                    /\ req[q].challengeId = Null}

(* a validation that lets a user challenge themselves *)
BeginCreate_NoSelfCheck(r, k) ==
  /\ CanBegin(r, k)
  /\ nextId + Cardinality(PendingCreates) <= MaxChallenges
  /\ \E u \in Players, v \in Players, g \in Games, b \in BetInputs :
       LET q == [IdleReq EXCEPT !.op = "create", !.uid = u,
                   !.challengedId = v, !.gameId = g, !.bet = b]
       IN req' = [req EXCEPT ![r] =
            IF b < MinBet \/ b > MaxBet
            THEN [q EXCEPT !.pc = "done", !.code = 400, !.err = "bad_bet"]
            ELSE [q EXCEPT !.pc = "c_idxPending"]]
  /\ UNCHANGED <<storeVars, bg, nextId, nextToken, envVars>>

(* lines 50-99: read the request, validate it, start the duplicate check *)
BeginCreate(r, k) ==
  /\ CanBegin(r, k)
  /\ nextId + Cardinality(PendingCreates) <= MaxChallenges
  /\ \E u \in Players, v \in Players, g \in Games, b \in BetInputs :
       LET q == [IdleReq EXCEPT !.op = "create", !.uid = u,
                   !.challengedId = v, !.gameId = g, !.bet = b]
       IN req' = [req EXCEPT ![r] =
            IF b < MinBet \/ b > MaxBet
            THEN [q EXCEPT !.pc = "done", !.code = 400, !.err = "bad_bet"]
            ELSE IF u = v
            THEN [q EXCEPT !.pc = "done", !.code = 400, !.err = "self"]
            ELSE [q EXCEPT !.pc = "c_idxPending"]]
  /\ UNCHANGED <<storeVars, bg, nextId, nextToken, envVars>>

(* lines 101-104 and 139-142: getUserChallengeIds(challengerId, status) *)
CreateReadIndex(r) ==
  /\ req[r].pc \in {"c_idxPending", "c_idxAccepted"}
  /\ LET pending == req[r].pc = "c_idxPending"
         ids == getUserChallengeIds(req[r].uid,
                  IF pending THEN "pending" ELSE "accepted")
     IN req' = [req EXCEPT ![r].todo = ids,
                  ![r].pc = IF ids # <<>>
                            THEN (IF pending THEN "c_getPending"
                                  ELSE "c_getAccepted")
                            ELSE (IF pending THEN "c_idxAccepted"
                                  ELSE "c_getUser")]
  /\ UNCHANGED <<storeVars, bg, nextId, nextToken, envVars>>

(* lines 118-127: same pair, same game, still pending *)
DuplicatePending(c, u, v, g) ==
  Exists(c) /\ SamePair(c, u, v) /\ c.gameId = g /\ c.status = "pending"

(* lines 155-165: same pair, no score submitted (a falsy check) *)
OverlapAccepted(c, u, v) ==
  Exists(c) /\ SamePair(c, u, v)
    /\ Falsy(c.challengerScore) /\ Falsy(c.challengedScore)

(* lines 107-136 and 144-174: one iteration of a duplicate-check loop *)
CreateCheckExisting(r) ==
  /\ req[r].pc \in {"c_getPending", "c_getAccepted"}
  /\ LET pending == req[r].pc = "c_getPending"
         e == Head(req[r].todo)
         c == challenges[e]
         rest == Tail(req[r].todo)
         hit == IF pending
                THEN DuplicatePending(c, req[r].uid, req[r].challengedId,
                                      req[r].gameId)
                ELSE OverlapAccepted(c, req[r].uid, req[r].challengedId)
     IN req' = [req EXCEPT ![r] =
          IF hit
          THEN [@ EXCEPT !.pc = "done", !.code = 409, !.existing = e,
                  !.data = c,
                  !.err = IF pending THEN "dup_pending" ELSE "dup_active"]
          ELSE [@ EXCEPT !.todo = rest,
                  !.pc = IF rest # <<>> THEN @
                         ELSE IF pending THEN "c_idxAccepted"
                         ELSE "c_getUser"]]
  /\ UNCHANGED <<storeVars, bg, nextId, nextToken, envVars>>

(* a duplicate check whose failure fails the request *)
CreateCheckFails_Refuses(r) ==
  /\ req[r].pc \in {"c_idxPending", "c_getPending", "c_idxAccepted",
                    "c_getAccepted"}
  /\ faults < MaxFaults
  /\ faults' = faults + 1 /\ chat' = chat
  /\ Respond(r, 500, "failed")
  /\ UNCHANGED <<storeVars, bg, nextId, nextToken, now, ticks>>

(* lines 177-183: the duplicate check threw; log.warn, creation continues *)
CreateCheckFails(r) ==
  /\ req[r].pc \in {"c_idxPending", "c_getPending", "c_idxAccepted",
                    "c_getAccepted"}
  /\ faults < MaxFaults
  /\ faults' = faults + 1 /\ chat' = chat
  /\ req' = [req EXCEPT ![r].pc = "c_getUser", ![r].todo = <<>>,
                       ![r].log = "create:duplicate_check:error"]
  /\ UNCHANGED <<storeVars, bg, nextId, nextToken, now, ticks>>

(* a Create that does not compare the balance with the bet *)
CreateReadWallet_NoFundsCheck(r) ==
  /\ req[r].pc = "c_getUser"
  /\ LET w == wallet[req[r].uid]
     IN IF w = NoUser
        THEN /\ Respond(r, 404, "user_not_found")
             /\ UNCHANGED nextId
        ELSE /\ req' = [req EXCEPT ![r].pc = "c_debit",
                          ![r].bal = w.amount, ![r].esc = w.escrowBalance,
                          ![r].challengeId = nextId]
             /\ nextId' = nextId + 1
  /\ UNCHANGED <<storeVars, bg, nextToken, envVars>>

(* lines 185-234: read the wallet, check the balance, pick the id *)
CreateReadWallet(r) ==
  /\ req[r].pc = "c_getUser"
  /\ LET w == wallet[req[r].uid]
     IN IF w = NoUser
        THEN /\ Respond(r, 404, "user_not_found")
             /\ UNCHANGED nextId
        ELSE IF w.amount < req[r].bet
        THEN /\ req' = [req EXCEPT ![r].pc = "done", ![r].code = 400,
                          ![r].err = "insufficient", ![r].bal = w.amount,
                          ![r].esc = w.escrowBalance]
             /\ UNCHANGED nextId
        ELSE /\ req' = [req EXCEPT ![r].pc = "c_debit",
                          ![r].bal = w.amount, ![r].esc = w.escrowBalance,
                          ![r].challengeId = nextId]
             /\ nextId' = nextId + 1
  /\ UNCHANGED <<storeVars, bg, nextToken, envVars>>

(* lines 236-240: update(userRef, wallet/amount, wallet/escrowBalance) *)
CreateDebit(r) ==
  /\ req[r].pc = "c_debit"
  /\ wallet' = [wallet EXCEPT ![req[r].uid] =
                  HoldWallet(req[r].bal, req[r].esc, req[r].bet)]
  /\ Goto(r, "c_txn")
  /\ UNCHANGED <<challenges, txns, userIndex, sessions, bg, nextId,
                 nextToken, envVars>>

(* lines 243-257: the transaction record *)
CreateTxn(r) ==
  /\ req[r].pc = "c_txn"
  /\ txns' = [txns EXCEPT ![req[r].uid] =
                Append(@, EscrowTxn(req[r].bet, req[r].bal,
                                    req[r].challengeId, "challenge_created"))]
  /\ Goto(r, "c_set")
  /\ UNCHANGED <<challenges, wallet, userIndex, sessions, bg, nextId,
                 nextToken, envVars>>

(* lines 260-324: set the challenge record, start the index update in the
   background, answer *)
CreateSet(r) ==
  /\ req[r].pc = "c_set"
  /\ challenges' = [challenges EXCEPT ![req[r].challengeId] =
       NewChallenge(req[r].uid, req[r].challengedId, req[r].gameId,
                    req[r].bet, now)]
  /\ bg' = bg \cup {[challengeId |-> req[r].challengeId,
                     challengerId |-> req[r].uid,
                     challengedId |-> req[r].challengedId,
                     status |-> "pending"]}
  /\ RespondEmitting(r, <<Event("challenge_created")>>)
  /\ UNCHANGED <<wallet, txns, userIndex, sessions, nextId, nextToken,
                 envVars>>

(* lines 325-331: a store operation outside the duplicate check threw *)
CreateFails(r) ==
  /\ req[r].pc \in {"c_getUser", "c_debit", "c_txn", "c_set"}
  /\ faults < MaxFaults
  /\ faults' = faults + 1 /\ chat' = chat
  /\ Respond(r, 500, "failed")
  /\ UNCHANGED <<storeVars, bg, nextId, nextToken, now, ticks>>

(* ------------------------- acceptChallenge ---------------------------- *)
BeginAccept(r, k) ==
  /\ CanBegin(r, k)
  /\ \E u \in Users, c \in KnownIds :
       req' = [req EXCEPT ![r] = [IdleReq EXCEPT !.op = "accept", !.uid = u,
                                    !.challengeId = c, !.pc = "a_get"]]
  /\ UNCHANGED <<storeVars, bg, nextId, nextToken, envVars>>

(* lines 347-368: read the challenge and validate it *)
AcceptReadChallenge(r) ==
  /\ req[r].pc = "a_get"
  /\ LET c == challenges[req[r].challengeId]
     IN req' = [req EXCEPT ![r] =
          IF ~Exists(c)
          THEN [@ EXCEPT !.pc = "done", !.code = 404, !.err = "not_found"]
          ELSE IF c.challengedId # req[r].uid
          THEN [@ EXCEPT !.pc = "done", !.code = 403, !.err = "unauthorized"]
          ELSE IF c.status # "pending"
          THEN [@ EXCEPT !.pc = "done", !.code = 400, !.err = "not_pending"]
          ELSE IF now > c.expiresAt
          THEN [@ EXCEPT !.pc = "done", !.code = 400, !.err = "expired"]
          ELSE [@ EXCEPT !.pc = "a_getUser", !.data = c]]
  /\ UNCHANGED <<storeVars, bg, nextId, nextToken, envVars>>

(* a wallet read that does not compare the balance with the bet *)
AcceptReadWallet_NoFundsCheck(r) ==
  /\ req[r].pc = "a_getUser"
  /\ LET w == wallet[req[r].uid]
     IN req' = [req EXCEPT ![r] =
          IF w = NoUser
          THEN [@ EXCEPT !.pc = "done", !.code = 404,
                  !.err = "user_not_found"]
          ELSE [@ EXCEPT !.pc = "a_debit", !.bal = w.amount,
                  !.esc = w.escrowBalance]]
  /\ UNCHANGED <<storeVars, bg, nextId, nextToken, envVars>>

(* lines 370-395: read the wallet, check the balance, keep the originals *)
AcceptReadWallet(r) ==
  /\ req[r].pc = "a_getUser"
  /\ LET w == wallet[req[r].uid]
     IN req' = [req EXCEPT ![r] =
          IF w = NoUser
          THEN [@ EXCEPT !.pc = "done", !.code = 404,
                  !.err = "user_not_found"]
          ELSE IF w.amount < req[r].data.betAmount
          THEN [@ EXCEPT !.pc = "done", !.code = 400, !.err = "insufficient",
                  !.bal = w.amount, !.esc = w.escrowBalance]
          ELSE [@ EXCEPT !.pc = "a_debit", !.bal = w.amount,
                  !.esc = w.escrowBalance]]
  /\ UNCHANGED <<storeVars, bg, nextId, nextToken, envVars>>

(* a debit that takes the bet from the balance and adds nothing to escrow *)
AcceptDebit_DebitOnly(r) ==
  /\ req[r].pc = "a_debit"
  /\ wallet' = [wallet EXCEPT ![req[r].uid].amount =
                  req[r].bal - req[r].data.betAmount]
  /\ Goto(r, "a_txn")
  /\ UNCHANGED <<challenges, txns, userIndex, sessions, bg, nextId,
                 nextToken, envVars>>

(* lines 399-407 *)
AcceptDebit(r) ==
  /\ req[r].pc = "a_debit"
  /\ wallet' = [wallet EXCEPT ![req[r].uid] =
                  HoldWallet(req[r].bal, req[r].esc, req[r].data.betAmount)]
  /\ Goto(r, "a_txn")
  /\ UNCHANGED <<challenges, txns, userIndex, sessions, bg, nextId,
                 nextToken, envVars>>

(* lines 412-429: the transaction record, then acceptedAt = Date.now() *)
AcceptTxn(r) ==
  /\ req[r].pc = "a_txn"
  /\ txns' = [txns EXCEPT ![req[r].uid] =
                Append(@, EscrowTxn(req[r].data.betAmount, req[r].bal,
                                    req[r].challengeId, "challenge_accepted"))]
  /\ req' = [req EXCEPT ![r].pc = "a_status", ![r].at = now]
  /\ UNCHANGED <<challenges, wallet, userIndex, sessions, bg, nextId,
                 nextToken, envVars>>

(* a status write that does not stamp acceptedAt *)
AcceptStatus_NoStamp(r) ==
  /\ req[r].pc = "a_status"
  /\ challenges' = [challenges EXCEPT ![req[r].challengeId] =
                      [@ EXCEPT !.status = "accepted"]]
  /\ bg' = bg \cup {[challengeId |-> req[r].challengeId,
                     challengerId |-> req[r].data.challengerId,
                     challengedId |-> req[r].data.challengedId,
                     status |-> "accepted"]}
  /\ RespondEmitting(r, <<Event("challenge_accepted")>>)
  /\ UNCHANGED <<wallet, txns, userIndex, sessions, nextId, nextToken,
                 envVars>>

(* lines 430-507: write the status, start the index update, answer *)
AcceptStatus(r) ==
  /\ req[r].pc = "a_status"
  /\ challenges' = [challenges EXCEPT ![req[r].challengeId] =
                      [@ EXCEPT !.status = "accepted",
                                !.acceptedAt = req[r].at]]
  /\ bg' = bg \cup {[challengeId |-> req[r].challengeId,
                     challengerId |-> req[r].data.challengerId,
                     challengedId |-> req[r].data.challengedId,
                     status |-> "accepted"]}
  /\ RespondEmitting(r, <<Event("challenge_accepted")>>)
  /\ UNCHANGED <<wallet, txns, userIndex, sessions, nextId, nextToken,
                 envVars>>

(* lines 434-443: a write of the inner try threw *)
AcceptInnerFails(r) ==
  /\ req[r].pc \in {"a_debit", "a_txn", "a_status"}
  /\ faults < MaxFaults
  /\ faults' = faults + 1 /\ chat' = chat
  /\ req' = [req EXCEPT ![r].pc = "a_rollback", ![r].thrownAt = req[r].pc]
  /\ UNCHANGED <<storeVars, bg, nextId, nextToken, now, ticks>>

(* a rollback that restores the balance and leaves the escrow *)
AcceptRollback_AmountOnly(r) ==
  /\ req[r].pc = "a_rollback"
  /\ wallet' = [wallet EXCEPT ![req[r].uid].amount = req[r].bal]
  /\ req' = [req EXCEPT ![r].pc = "done", ![r].code = 500,
               ![r].err = "failed", ![r].log = "accept:rollback:success"]
  /\ UNCHANGED <<challenges, txns, userIndex, sessions, bg, nextId,
                 nextToken, envVars>>

(* lines 444-450, 459, 508-514: write the original balances back, rethrow *)
AcceptRollback(r) ==
  /\ req[r].pc = "a_rollback"
  /\ wallet' = [wallet EXCEPT ![req[r].uid] =
                  [amount |-> req[r].bal, escrowBalance |-> req[r].esc]]
  /\ req' = [req EXCEPT ![r].pc = "done", ![r].code = 500,
               ![r].err = "failed", ![r].log = "accept:rollback:success"]
  /\ UNCHANGED <<challenges, txns, userIndex, sessions, bg, nextId,
                 nextToken, envVars>>

(* lines 451-459, 508-514: the rollback write threw too *)
AcceptRollbackFails(r) ==
  /\ req[r].pc = "a_rollback"
  /\ faults < MaxFaults
  /\ faults' = faults + 1 /\ chat' = chat
  /\ req' = [req EXCEPT ![r].pc = "done", ![r].code = 500,
               ![r].err = "failed", ![r].log = "accept:rollback:failed"]
  /\ UNCHANGED <<storeVars, bg, nextId, nextToken, now, ticks>>

(* lines 508-514: a read before the inner try threw *)
AcceptFails(r) ==
  /\ req[r].pc \in {"a_get", "a_getUser"}
  /\ faults < MaxFaults
  /\ faults' = faults + 1 /\ chat' = chat
  /\ Respond(r, 500, "failed")
  /\ UNCHANGED <<storeVars, bg, nextId, nextToken, now, ticks>>

(* ------------------- rejectChallenge, cancelChallenge ------------------ *)
BeginReject(r, k) ==
  /\ CanBegin(r, k)
  /\ \E u \in Users, c \in KnownIds :
       req' = [req EXCEPT ![r] = [IdleReq EXCEPT !.op = "reject", !.uid = u,
                                    !.challengeId = c, !.pc = "r_get"]]
  /\ UNCHANGED <<storeVars, bg, nextId, nextToken, envVars>>

(* lines 531-552 *)
RejectReadChallenge(r) ==
  /\ req[r].pc = "r_get"
  /\ LET c == challenges[req[r].challengeId]
     IN req' = [req EXCEPT ![r] =
          IF ~Exists(c)
          THEN [@ EXCEPT !.pc = "done", !.code = 404, !.err = "not_found"]
          ELSE IF c.challengedId # req[r].uid
          THEN [@ EXCEPT !.pc = "done", !.code = 403, !.err = "unauthorized"]
          ELSE IF c.status # "pending"
          THEN [@ EXCEPT !.pc = "done", !.code = 400, !.err = "not_pending"]
          ELSE [@ EXCEPT !.pc = "r_status", !.data = c, !.at = now]]
  /\ UNCHANGED <<storeVars, bg, nextId, nextToken, envVars>>

(* lines 549-553 *)
RejectStatus(r) ==
  /\ req[r].pc = "r_status"
  /\ challenges' = [challenges EXCEPT ![req[r].challengeId] =
                      [@ EXCEPT !.status = "rejected",
                                !.rejectedAt = req[r].at]]
  /\ Goto(r, "r_index")
  /\ UNCHANGED <<wallet, txns, userIndex, sessions, bg, nextId, nextToken,
                 envVars>>

(* lines 555-593: the awaited index update, then the answer *)
RejectIndex(r) ==
  /\ req[r].pc = "r_index"
  /\ userIndex' = IndexWith(userIndex, req[r].challengeId,
                            req[r].data.challengerId,
                            req[r].data.challengedId, "rejected")
  /\ RespondEmitting(r, <<Event("challenge_rejected")>>)
  /\ UNCHANGED <<challenges, wallet, txns, sessions, bg, nextId, nextToken,
                 envVars>>

(* lines 594-600 *)
RejectFails(r) ==
  /\ req[r].pc \in {"r_get", "r_status", "r_index"}
  /\ faults < MaxFaults
  /\ faults' = faults + 1 /\ chat' = chat
  /\ Respond(r, 500, "failed")
  /\ UNCHANGED <<storeVars, bg, nextId, nextToken, now, ticks>>

BeginCancel(r, k) ==
  /\ CanBegin(r, k)
  /\ \E u \in Users, c \in KnownIds :
       req' = [req EXCEPT ![r] = [IdleReq EXCEPT !.op = "cancel", !.uid = u,
                                    !.challengeId = c, !.pc = "x_get"]]
  /\ UNCHANGED <<storeVars, bg, nextId, nextToken, envVars>>

(* a cancel that does not look at the status *)
CancelReadChallenge_AnyStatus(r) ==
  /\ req[r].pc = "x_get"
  /\ LET c == challenges[req[r].challengeId]
     IN req' = [req EXCEPT ![r] =
          IF ~Exists(c)
          THEN [@ EXCEPT !.pc = "done", !.code = 404, !.err = "not_found"]
          ELSE IF c.challengerId # req[r].uid
          THEN [@ EXCEPT !.pc = "done", !.code = 403, !.err = "unauthorized"]
          ELSE [@ EXCEPT !.pc = "x_status", !.data = c, !.at = now]]
  /\ UNCHANGED <<storeVars, bg, nextId, nextToken, envVars>>

(* lines 617-638 *)
CancelReadChallenge(r) ==
  /\ req[r].pc = "x_get"
  /\ LET c == challenges[req[r].challengeId]
     IN req' = [req EXCEPT ![r] =
          IF ~Exists(c)
          THEN [@ EXCEPT !.pc = "done", !.code = 404, !.err = "not_found"]
          ELSE IF c.challengerId # req[r].uid
          THEN [@ EXCEPT !.pc = "done", !.code = 403, !.err = "unauthorized"]
          ELSE IF c.status # "pending"
          THEN [@ EXCEPT !.pc = "done", !.code = 400, !.err = "not_pending"]
          ELSE [@ EXCEPT !.pc = "x_status", !.data = c, !.at = now]]
  /\ UNCHANGED <<storeVars, bg, nextId, nextToken, envVars>>

(* lines 635-639 *)
CancelStatus(r) ==
  /\ req[r].pc = "x_status"
  /\ challenges' = [challenges EXCEPT ![req[r].challengeId] =
                      [@ EXCEPT !.status = "cancelled",
                                !.cancelledAt = req[r].at]]
  /\ Goto(r, "x_index")
  /\ UNCHANGED <<wallet, txns, userIndex, sessions, bg, nextId, nextToken,
                 envVars>>

(* lines 641-679 *)
CancelIndex(r) ==
  /\ req[r].pc = "x_index"
  /\ userIndex' = IndexWith(userIndex, req[r].challengeId,
                            req[r].data.challengerId,
                            req[r].data.challengedId, "cancelled")
  /\ RespondEmitting(r, <<Event("challenge_cancelled")>>)
  /\ UNCHANGED <<challenges, wallet, txns, sessions, bg, nextId, nextToken,
                 envVars>>

(* lines 680-686 *)
CancelFails(r) ==
  /\ req[r].pc \in {"x_get", "x_status", "x_index"}
  /\ faults < MaxFaults
  /\ faults' = faults + 1 /\ chat' = chat
  /\ Respond(r, 500, "failed")
  /\ UNCHANGED <<storeVars, bg, nextId, nextToken, now, ticks>>

(* ------------------------- startGameSession --------------------------- *)
PendingStarts ==
  {q \in ReqIds : req[q].op = "start" /\ req[q].pc = "s_get"}

BeginStart(r, k) ==
  /\ CanBegin(r, k)
  /\ nextToken + Cardinality(PendingStarts) <= MaxSessions
  /\ \E u \in Users, c \in KnownIds :
       req' = [req EXCEPT ![r] = [IdleReq EXCEPT !.op = "start", !.uid = u,
                                    !.challengeId = c, !.pc = "s_get"]]
  /\ UNCHANGED <<storeVars, bg, nextId, nextToken, envVars>>

(* a session start that does not look at the status *)
StartReadChallenge_AnyStatus(r) ==
  /\ req[r].pc = "s_get"
  /\ LET c == challenges[req[r].challengeId]
         ok == /\ Exists(c)
               /\ req[r].uid \in {c.challengerId, c.challengedId}
     IN /\ req' = [req EXCEPT ![r] =
             IF ~Exists(c)
             THEN [@ EXCEPT !.pc = "done", !.code = 404, !.err = "not_found"]
             ELSE IF c.challengerId # req[r].uid
                     /\ c.challengedId # req[r].uid
             THEN [@ EXCEPT !.pc = "done", !.code = 403,
                     !.err = "unauthorized"]
             ELSE [@ EXCEPT !.pc = "s_set", !.data = c, !.token = nextToken]]
        /\ nextToken' = IF ok THEN nextToken + 1 ELSE nextToken
  /\ UNCHANGED <<storeVars, bg, nextId, envVars>>

(* lines 707-750: read the challenge, validate it, draw the token *)
StartReadChallenge(r) ==
  /\ req[r].pc = "s_get"
  /\ LET c == challenges[req[r].challengeId]
         ok == /\ Exists(c)
               /\ req[r].uid \in {c.challengerId, c.challengedId}
               /\ c.status = "accepted"
     IN /\ req' = [req EXCEPT ![r] =
             IF ~Exists(c)
             THEN [@ EXCEPT !.pc = "done", !.code = 404, !.err = "not_found"]
             ELSE IF c.challengerId # req[r].uid
                     /\ c.challengedId # req[r].uid
             THEN [@ EXCEPT !.pc = "done", !.code = 403,
                     !.err = "unauthorized"]
             ELSE IF c.status # "accepted"
             THEN [@ EXCEPT !.pc = "done", !.code = 400,
                     !.err = "not_accepted"]
             ELSE [@ EXCEPT !.pc = "s_set", !.data = c, !.token = nextToken]]
        /\ nextToken' = IF ok THEN nextToken + 1 ELSE nextToken
  /\ UNCHANGED <<storeVars, bg, nextId, envVars>>

(* lines 752-772 *)
StartSet(r) ==
  /\ req[r].pc = "s_set"
  /\ sessions' = [sessions EXCEPT ![req[r].token] =
                    [challengeId |-> req[r].challengeId,
                     userId |-> req[r].uid, createdAt |-> now,
                     expiresAt |-> now + SessionTTL]]
  /\ Respond(r, 200, "none")
  /\ UNCHANGED <<challenges, wallet, txns, userIndex, bg, nextId, nextToken,
                 envVars>>

(* lines 773-779 *)
StartFails(r) ==
  /\ req[r].pc \in {"s_get", "s_set"}
  /\ faults < MaxFaults
  /\ faults' = faults + 1 /\ chat' = chat
  /\ Respond(r, 500, "failed")
  /\ UNCHANGED <<storeVars, bg, nextId, nextToken, now, ticks>>

(* ----------------------- submitChallengeScore ------------------------- *)
(* lines 904, 926-929: the two scores as the handler sees them: its own
   score and the opponent's slot of the record it read *)
NewChallengerScore(data, uid, score) ==
  IF data.challengerId = uid THEN score ELSE data.challengerScore

NewChallengedScore(data, uid, score) ==
  IF data.challengerId = uid THEN data.challengedScore ELSE score

(* the truthiness check BUGFIX_SUMMARY.md describes: 0 is not a score *)
BothSubmitted_Falsy(cs, ds) == ~Falsy(cs) /\ ~Falsy(ds)

(* line 931 *)
BothSubmitted(cs, ds) == cs # Null /\ ds # Null

(* lines 936-942 *)
Winner(data, cs, ds) ==
  IF cs > ds THEN data.challengerId
  ELSE IF ds > cs THEN data.challengedId
  ELSE "tie"

(* a write of the whole record as it was read, with the new score in it *)
ApplyScore_Snapshot(c, data, uid, score, at) ==
  LET cs == NewChallengerScore(data, uid, score)
      ds == NewChallengedScore(data, uid, score)
      own == IF data.challengerId = uid
             THEN [data EXCEPT !.challengerScore = score]
             ELSE [data EXCEPT !.challengedScore = score]
  IN IF BothSubmitted(cs, ds)
     THEN [own EXCEPT !.status = "completed", !.completedAt = at,
                      !.winnerId = Winner(data, cs, ds)]
     ELSE own

(* lines 903-942, 969: update(challengeRef, updates) applied to the stored
   record c; updates was computed from the record data read earlier *)
ApplyScore(c, data, uid, score, at) ==
  LET cs == NewChallengerScore(data, uid, score)
      ds == NewChallengedScore(data, uid, score)
      own == IF data.challengerId = uid
             THEN [c EXCEPT !.challengerScore = score]
             ELSE [c EXCEPT !.challengedScore = score]
  IN IF BothSubmitted(cs, ds)
     THEN [own EXCEPT !.status = "completed", !.completedAt = at,
                      !.winnerId = Winner(data, cs, ds)]
     ELSE own

(* lines 1010-1063: emitScoreUpdated, and emitChallengeCompleted when this
   request completed the challenge *)
SubmitEvents(data, uid, score) ==
  IF BothSubmitted(NewChallengerScore(data, uid, score),
                   NewChallengedScore(data, uid, score))
  THEN <<Event("score_updated"), Event("challenge_completed")>>
  ELSE <<Event("score_updated")>>

BeginSubmit(r, k) ==
  /\ CanBegin(r, k)
  /\ \E u \in Users, c \in KnownIds, sc \in Scores, t \in KnownTokens :
       req' = [req EXCEPT ![r] = [IdleReq EXCEPT !.op = "submit", !.uid = u,
                                    !.challengeId = c, !.score = sc,
                                    !.token = t, !.pc = "sc_session"]]
  /\ UNCHANGED <<storeVars, bg, nextId, nextToken, envVars>>

(* a session gate that does not look at the expiry time *)
SubmitReadSession_NoExpiry(r) ==
  /\ req[r].pc = "sc_session"
  /\ LET ses == sessions[req[r].token]
     IN req' = [req EXCEPT ![r] =
          IF ses = NoSession
          THEN [@ EXCEPT !.pc = "done", !.code = 403,
                  !.err = "session_not_found"]
          ELSE IF ses.userId # req[r].uid
                  \/ ses.challengeId # req[r].challengeId
          THEN [@ EXCEPT !.pc = "done", !.code = 403,
                  !.err = "session_mismatch"]
          ELSE [@ EXCEPT !.pc = "sc_get"]]
  /\ UNCHANGED <<storeVars, bg, nextId, nextToken, envVars>>

(* lines 795-850: the session gate *)
SubmitReadSession(r) ==
  /\ req[r].pc = "sc_session"
  /\ LET ses == sessions[req[r].token]
     IN req' = [req EXCEPT ![r] =
          IF ses = NoSession
          THEN [@ EXCEPT !.pc = "done", !.code = 403,
                  !.err = "session_not_found"]
          ELSE IF ses.userId # req[r].uid
                  \/ ses.challengeId # req[r].challengeId
          THEN [@ EXCEPT !.pc = "done", !.code = 403,
                  !.err = "session_mismatch"]
          ELSE IF now > ses.expiresAt
          THEN [@ EXCEPT !.pc = "done", !.code = 403,
                  !.err = "session_expired"]
          ELSE [@ EXCEPT !.pc = "sc_get"]]
  /\ UNCHANGED <<storeVars, bg, nextId, nextToken, envVars>>

(* lines 852-961: read the challenge, validate it, compute the updates *)
SubmitReadChallenge(r) ==
  /\ req[r].pc = "sc_get"
  /\ LET c == challenges[req[r].challengeId]
     IN req' = [req EXCEPT ![r] =
          IF ~Exists(c)
          THEN [@ EXCEPT !.pc = "done", !.code = 404, !.err = "not_found"]
          ELSE IF c.challengerId # req[r].uid /\ c.challengedId # req[r].uid
          THEN [@ EXCEPT !.pc = "done", !.code = 403, !.err = "unauthorized"]
          ELSE IF c.status # "accepted"
          THEN [@ EXCEPT !.pc = "done", !.code = 400, !.err = "not_accepted"]
          ELSE [@ EXCEPT !.pc = "sc_update", !.data = c, !.at = now]]
  /\ UNCHANGED <<storeVars, bg, nextId, nextToken, envVars>>

(* lines 963-992: write the updates *)
SubmitUpdate(r) ==
  /\ req[r].pc = "sc_update"
  /\ challenges' = [challenges EXCEPT ![req[r].challengeId] =
       ApplyScore(@, req[r].data, req[r].uid, req[r].score, req[r].at)]
  /\ Goto(r, IF BothSubmitted(
                  NewChallengerScore(req[r].data, req[r].uid, req[r].score),
                  NewChallengedScore(req[r].data, req[r].uid, req[r].score))
             THEN "sc_index" ELSE "sc_remove")
  /\ UNCHANGED <<wallet, txns, userIndex, sessions, bg, nextId, nextToken,
                 envVars>>

(* lines 976-992: the awaited index update of a completion *)
SubmitIndex(r) ==
  /\ req[r].pc = "sc_index"
  /\ userIndex' = IndexWith(userIndex, req[r].challengeId,
                            req[r].data.challengerId,
                            req[r].data.challengedId, "completed")
  /\ Goto(r, "sc_remove")
  /\ UNCHANGED <<challenges, wallet, txns, sessions, bg, nextId, nextToken,
                 envVars>>

(* lines 994-1091: remove the session, answer *)
SubmitRemoveSession(r) ==
  /\ req[r].pc = "sc_remove"
  /\ sessions' = [sessions EXCEPT ![req[r].token] = NoSession]
  /\ RespondEmitting(r, SubmitEvents(req[r].data, req[r].uid, req[r].score))
  /\ UNCHANGED <<challenges, wallet, txns, userIndex, bg, nextId, nextToken,
                 envVars>>

(* lines 1092-1098 *)
SubmitFails(r) ==
  /\ req[r].pc \in {"sc_session", "sc_get", "sc_update", "sc_index",
                    "sc_remove"}
  /\ faults < MaxFaults
  /\ faults' = faults + 1 /\ chat' = chat
  /\ Respond(r, 500, "failed")
  /\ UNCHANGED <<storeVars, bg, nextId, nextToken, now, ticks>>

(* ----------------------- background index update ---------------------- *)
(* addChallengeToUserIndex / updateChallengeInUserIndex, not awaited *)
BgIndexApply ==
  \E t \in bg :
    /\ userIndex' = IndexWith(userIndex, t.challengeId, t.challengerId,
                              t.challengedId, t.status)
    /\ bg' = bg \ {t}
    /\ UNCHANGED <<challenges, wallet, txns, sessions, req, nextId,
                   nextToken, envVars>>

(* lines 310-312, 494-496: the .catch of the background update *)
BgIndexFails ==
  \E t \in bg :
    /\ faults < MaxFaults
    /\ faults' = faults + 1 /\ chat' = chat
    /\ bg' = bg \ {t}
    /\ UNCHANGED <<storeVars, req, nextId, nextToken, now, ticks>>

(* --------------------------- relay of events -------------------------- *)
(* socketService.js lines 22-41: the POST of an emitted event succeeds *)
RelayDone(r) ==
  \E i \in DOMAIN req[r].events :
    /\ req[r].events[i].sent = "pending"
    /\ req' = [req EXCEPT ![r].events[i].sent = "ok"]
    /\ UNCHANGED <<storeVars, bg, nextId, nextToken, envVars>>

(* socketService.js lines 42-51: the POST fails; relayEmit logs and
   returns false *)
RelayFails(r) ==
  \E i \in DOMAIN req[r].events :
    /\ req[r].events[i].sent = "pending"
    /\ faults < MaxFaults
    /\ faults' = faults + 1 /\ chat' = chat
    /\ req' = [req EXCEPT ![r].events[i].sent = "failed"]
    /\ UNCHANGED <<storeVars, bg, nextId, nextToken, now, ticks>>

(* ------------------ socket service with a local server --------------- *)
(* unnamed/part_000: the emit functions of the socket service that holds a
   Socket.IO server (io) when the process has an HTTP server, and posts to
   the relay when SOCKETS_EMIT_URL and SOCKETS_INTERNAL_SECRET are set. *)
SocketEvents ==
  {"challenge_created", "challenge_accepted", "challenge_rejected",
   "challenge_cancelled", "score_updated", "game_started",
   "challenge_completed"}

(* lines 309-329 and 390-413: the emitters that never call relayEmit *)
LocalOnly == {"challenge_cancelled", "game_started"}

Dispatch(type, via, sent) == [type |-> type, via |-> via, sent |-> sent]

(* lines 12-34: relayEmit posts only when it is configured *)
RelayDispatch(type, configured) ==
  Dispatch(type, "relay", IF configured THEN "pending" ELSE "unconfigured")

(* lines 193-457: what one call of an emit function dispatches *)
SocketDispatch(type, hasIo, configured) ==
  IF type \in LocalOnly
  THEN IF hasIo THEN <<Dispatch(type, "local", "ok")>> ELSE <<>>
  ELSE IF hasIo
       THEN <<Dispatch(type, "local", "ok"), RelayDispatch(type, configured)>>
       ELSE <<RelayDispatch(type, configured)>>

(* io and the relay settings are fixed when the process starts: every call
   sees the same ones *)
BeginEmit(r, k) ==
  /\ CanBegin(r, k)
  /\ \E type \in SocketEvents, hasIo \in BOOLEAN, configured \in BOOLEAN :
       /\ \A q \in ReqIds :
            req[q].op = "emit"
              => req[q].io = hasIo /\ req[q].relay = configured
       /\ req' = [req EXCEPT ![r] =
                    [IdleReq EXCEPT !.op = "emit", !.kind = type,
                                    !.io = hasIo, !.relay = configured,
                                    !.pc = "e_emit"]]
  /\ UNCHANGED <<storeVars, bg, nextId, nextToken, envVars>>

SocketEmit(r) ==
  /\ req[r].pc = "e_emit"
  /\ req' = [req EXCEPT ![r].pc = "done",
                       ![r].events =
                         SocketDispatch(req[r].kind, req[r].io, req[r].relay)]
  /\ UNCHANGED <<storeVars, bg, nextId, nextToken, envVars>>

(* ------------------------- mobile push senders ------------------------ *)
(* fcmService.js: one call of sendScoreUpdatedNotification or
   sendChallengeCompletedNotification for recipient u.  A call that returns
   has err "none"; one that rejects into its caller has err "thrown". *)
PushKinds == {"score_updated", "challenge_completed"}

Push(kind, name, sent) == [type |-> kind, sent |-> sent, from |-> name]

BeginPush(r, k) ==
  /\ CanBegin(r, k)
  /\ \E u \in Players, kind \in PushKinds :
       req' = [req EXCEPT ![r] = [IdleReq EXCEPT !.op = "push", !.uid = u,
                                    !.kind = kind, !.pc = "p_token"]]
  /\ UNCHANGED <<storeVars, bg, nextId, nextToken, envVars>>

(* lines 15-19, 198-202, 244-248: the token lookup; without a token the
   sender returns *)
PushReadToken(r) ==
  /\ req[r].pc = "p_token"
  /\ \E registered \in BOOLEAN :
       req' = [req EXCEPT ![r] =
          IF registered THEN [@ EXCEPT !.pc = "p_name"]
          ELSE [@ EXCEPT !.pc = "done", !.err = "none",
                  !.log = "fcm:no_token"]]
  /\ UNCHANGED <<storeVars, bg, nextId, nextToken, envVars>>

(* lines 20-23: the lookup threw; getUserFCMToken logs and returns null *)
PushTokenFails(r) ==
  /\ req[r].pc = "p_token"
  /\ faults < MaxFaults
  /\ faults' = faults + 1 /\ chat' = chat
  /\ req' = [req EXCEPT ![r].pc = "done", ![r].err = "none",
                       ![r].log = "fcm:token_error"]
  /\ UNCHANGED <<storeVars, bg, nextId, nextToken, now, ticks>>

(* lines 27-37, 204, 250: the display name of the opponent *)
PushReadName(r) ==
  /\ req[r].pc = "p_name"
  /\ \E name \in {"name", "Someone"} :
       req' = [req EXCEPT ![r].pc = "p_send", ![r].opponentName = name]
  /\ UNCHANGED <<storeVars, bg, nextId, nextToken, envVars>>

(* lines 38-41: the lookup threw; getUserDisplayName logs and returns
   "Someone" *)
PushNameFails(r) ==
  /\ req[r].pc = "p_name"
  /\ faults < MaxFaults
  /\ faults' = faults + 1 /\ chat' = chat
  /\ req' = [req EXCEPT ![r].pc = "p_send", ![r].opponentName = "Someone",
                       ![r].log = "fcm:name_error"]
  /\ UNCHANGED <<storeVars, bg, nextId, nextToken, now, ticks>>

(* lines 47-89, 222-232, 252-263: admin.messaging().send resolves *)
PushSend(r) ==
  /\ req[r].pc = "p_send"
  /\ req' = [req EXCEPT ![r].pc = "done", ![r].err = "none",
                       ![r].events =
                         <<Push(req[r].kind, req[r].opponentName, "ok")>>]
  /\ UNCHANGED <<storeVars, bg, nextId, nextToken, envVars>>

(* a send whose failure reaches the caller *)
PushSendFails_Throws(r) ==
  /\ req[r].pc = "p_send"
  /\ faults < MaxFaults
  /\ faults' = faults + 1 /\ chat' = chat
  /\ req' = [req EXCEPT ![r].pc = "done", ![r].err = "thrown"]
  /\ UNCHANGED <<storeVars, bg, nextId, nextToken, now, ticks>>

(* lines 90-96: the send threw; sendNotification logs and returns false *)
PushSendFails(r) ==
  /\ req[r].pc = "p_send"
  /\ faults < MaxFaults
  /\ faults' = faults + 1 /\ chat' = chat
  /\ req' = [req EXCEPT ![r].pc = "done", ![r].err = "none",
                       ![r].log = "fcm:send_error",
                       ![r].events =
                         <<Push(req[r].kind, req[r].opponentName, "failed")>>]
  /\ UNCHANGED <<storeVars, bg, nextId, nextToken, now, ticks>>

PushSteps(r) == PushReadToken(r) \/ PushReadName(r) \/ PushSend(r)

PushFailures(r) == PushTokenFails(r) \/ PushNameFails(r) \/ PushSendFails(r)

(* ------------------------------- clock -------------------------------- *)
Tick ==
  /\ ticks < MaxTicks
  /\ \E d \in TickSteps : now' = now + d
  /\ ticks' = ticks + 1
  /\ UNCHANGED <<storeVars, req, bg, nextId, nextToken, faults, chat>>

CreateSteps(r) ==
  \/ CreateReadIndex(r)
  \/ CreateCheckExisting(r)
  \/ CreateReadWallet(r)
  \/ CreateDebit(r)
  \/ CreateTxn(r)
  \/ CreateSet(r)

AcceptSteps(r) ==
  \/ AcceptReadChallenge(r)
  \/ AcceptReadWallet(r)
  \/ AcceptDebit(r)
  \/ AcceptTxn(r)
  \/ AcceptStatus(r)

RejectSteps(r) == RejectReadChallenge(r) \/ RejectStatus(r) \/ RejectIndex(r)

CancelSteps(r) == CancelReadChallenge(r) \/ CancelStatus(r) \/ CancelIndex(r)

StartSteps(r) == StartReadChallenge(r) \/ StartSet(r)

SubmitSteps(r) ==
  \/ SubmitReadSession(r)
  \/ SubmitReadChallenge(r)
  \/ SubmitUpdate(r)
  \/ SubmitIndex(r)
  \/ SubmitRemoveSession(r)

CreateRequests(r, k) == BeginCreate(r, k) \/ CreateSteps(r)

DecideRequests(r, k) ==
  \/ BeginAccept(r, k) \/ AcceptSteps(r)
  \/ BeginReject(r, k) \/ RejectSteps(r)
  \/ BeginCancel(r, k) \/ CancelSteps(r)

PlayRequests(r, k) ==
  \/ BeginStart(r, k) \/ StartSteps(r)
  \/ BeginSubmit(r, k) \/ SubmitSteps(r)

CreateFailures(r) == CreateCheckFails(r) \/ CreateFails(r)

DecideFailures(r) ==
  \/ AcceptInnerFails(r) \/ AcceptRollback(r) \/ AcceptRollbackFails(r)
  \/ AcceptFails(r)
  \/ RejectFails(r) \/ CancelFails(r)

PlayFailures(r) == StartFails(r) \/ SubmitFails(r)

(* Every handler, requests running concurrently; no store operation fails
   and the clock stands still. *)
Next ==
  \/ \E r \in ReqIds :
       CreateRequests(r, MaxReq) \/ DecideRequests(r, MaxReq)
         \/ PlayRequests(r, MaxReq)
  \/ BgIndexApply

Spec == Init /\ [][Next]_vars

(* Create requests, one at a time; store operations may fail. *)
NextCreate ==
  \/ \E r \in ReqIds : CreateRequests(r, 1) \/ CreateFailures(r)
  \/ BgIndexApply
  \/ BgIndexFails

SpecCreate == Init /\ [][NextCreate]_vars

(* Accept, Reject and Cancel requests, one at a time; store operations may
   fail. *)
NextDecide ==
  \/ \E r \in ReqIds : DecideRequests(r, 1) \/ DecideFailures(r)
  \/ BgIndexApply
  \/ BgIndexFails

SpecDecide == Init /\ [][NextDecide]_vars

(* StartSession and SubmitScore requests, one at a time. *)
NextPlay ==
  \E r \in ReqIds : PlayRequests(r, 1)

SpecPlay == Init /\ [][NextPlay]_vars

(* SubmitScore requests running concurrently, from the state in which the
   challenger has already submitted a score and still holds a session. *)
NextReplay ==
  \E r \in ReqIds : BeginSubmit(r, MaxReq) \/ SubmitSteps(r)

SpecReplay == InitReplay /\ [][NextReplay]_vars

(* SubmitScore requests, one at a time, while the clock advances, from the
   state in which both participants hold a session. *)
NextSession ==
  \/ \E r \in ReqIds : BeginSubmit(r, 1) \/ SubmitSteps(r)
  \/ Tick

SpecSession == InitPlaying /\ [][NextSession]_vars

(* StartSession requests, one at a time, while the clock advances. *)
NextStart ==
  \/ \E r \in ReqIds : BeginStart(r, 1) \/ StartSteps(r)
  \/ Tick

SpecStart == Init /\ [][NextStart]_vars

(* Accept, Reject and Cancel requests, one at a time, while the clock
   advances. *)
NextExpiry ==
  \/ \E r \in ReqIds : DecideRequests(r, 1)
  \/ BgIndexApply
  \/ Tick

SpecExpiry == Init /\ [][NextExpiry]_vars

(* A has challenged B *)
InitPending ==
  /\ InitStage("pending", 0)
  /\ req = [r \in ReqIds |-> IdleReq]
  /\ bg = {}
  /\ now = 0
  /\ ticks = 0
  /\ faults = 0
  /\ chat = [c \in ChallengeIds |-> NoRoom]

(* The handlers that write wallets, Create and Accept with its rollback,
   requests running concurrently; their store operations may fail. *)
NextHolds ==
  \/ \E r \in ReqIds :
       \/ CreateRequests(r, MaxReq) \/ CreateFails(r)
       \/ BeginAccept(r, MaxReq) \/ AcceptSteps(r)
       \/ AcceptInnerFails(r) \/ AcceptRollback(r) \/ AcceptRollbackFails(r)
       \/ AcceptFails(r)
  \/ BgIndexApply

SpecHolds == InitPending /\ [][NextHolds]_vars

(* A has challenged B, and B holds exactly one bet *)
InitTight ==
  /\ challenges = [c \in ChallengeIds |->
                     IF c = 1 THEN StageChallenge("pending", 0)
                     ELSE NoChallenge]
  /\ wallet = [u \in Users |->
                 CASE u = "A" -> HoldWallet(InitBalance, 0, MinBet)
                   [] u = "B" -> [amount |-> MinBet, escrowBalance |-> 0]
                   [] OTHER -> [amount |-> InitBalance, escrowBalance |-> 0]]
  /\ txns = [u \in Users |->
               IF u = "A"
               THEN <<EscrowTxn(MinBet, InitBalance, 1, "challenge_created")>>
               ELSE <<>>]
  /\ userIndex = [u \in Users |-> [c \in ChallengeIds |->
                    IF c = 1 /\ u \in {"A", "B"} THEN "pending" ELSE "none"]]
  /\ sessions = [t \in Tokens |-> NoSession]
  /\ nextId = 2
  /\ nextToken = 1
  /\ req = [r \in ReqIds |-> IdleReq]
  /\ bg = {}
  /\ now = 0
  /\ ticks = 0
  /\ faults = 0
  /\ chat = [c \in ChallengeIds |-> NoRoom]

(* the same handlers as NextHolds, on wallets that a single hold empties *)
SpecTight == InitTight /\ [][NextHolds]_vars

(* Create and Accept requests, one at a time, by users with and without
   funds and with and without a users/ record. *)
NextFunds ==
  \/ \E r \in ReqIds :
       CreateRequests(r, 1) \/ BeginAccept(r, 1) \/ AcceptSteps(r)
  \/ BgIndexApply

SpecFunds == InitFunds /\ [][NextFunds]_vars

(* Every handler, one request at a time; store operations and relay
   posts may fail. *)
NextEvents ==
  \/ \E r \in ReqIds :
       \/ CreateRequests(r, 1) \/ CreateFailures(r)
       \/ DecideRequests(r, 1) \/ DecideFailures(r)
       \/ PlayRequests(r, 1) \/ PlayFailures(r)
       \/ RelayDone(r) \/ RelayFails(r)
  \/ BgIndexApply
  \/ BgIndexFails

SpecEvents == Init /\ [][NextEvents]_vars

(* Calls of the push senders, running concurrently; every lookup and send
   may fail. *)
NextPush ==
  \E r \in ReqIds : BeginPush(r, MaxReq) \/ PushSteps(r) \/ PushFailures(r)

SpecPush == InitPlaying /\ [][NextPush]_vars

(* SubmitScore requests running concurrently, from the state in which both
   participants hold a session. *)
NextSlots ==
  \E r \in ReqIds : BeginSubmit(r, MaxReq) \/ SubmitSteps(r)

SpecSlots == InitPlaying /\ [][NextSlots]_vars

(* Calls of the emit functions of the socket service with a local server;
   relay posts may fail. *)
NextRelay ==
  \E r \in ReqIds :
    BeginEmit(r, MaxReq) \/ SocketEmit(r) \/ RelayDone(r) \/ RelayFails(r)

SpecRelay == InitPending /\ [][NextRelay]_vars

(* ------------------------- challenge chat rooms ----------------------- *)
(* challengeMessagesController.js and unnamed/part_006 (the reactions
   controller): messages and reactions of the room challenges/{id}.  The
   unified log is challenges/{id}/interactions, the legacy logs are
   challenges/{id}/messages and challenges/{id}/reactions.  A log is the
   sequence of its children in push-key order.  The notification that the
   handlers create without awaiting is written outside the room and is left
   out. *)
Emojis == {"fire"}
Texts == {"gg"}
Limit == 50

(* a child of interactions or of messages; a message child has no type,
   reaction or action *)
Entry(type, u, reaction, action, message, t) ==
  [type |-> type, userId |-> u, reaction |-> reaction, action |-> action,
   message |-> message, timestamp |-> t]

(* an element of reactions/{emoji} *)
ReactionEntry(emoji, u, t) == [emoji |-> emoji, userId |-> u, timestamp |-> t]

(* a write started inside Promise.all and not awaited by the handler *)
RoomWrite(path, entry, reactions) ==
  [path |-> path, entry |-> entry, reactions |-> reactions]

LastN(s, n) == IF Len(s) > n THEN SubSeq(s, Len(s) - n + 1, Len(s)) ELSE s

RECURSIVE InsertByTimestamp(_, _)
InsertByTimestamp(s, x) ==
  IF s = <<>> THEN <<x>>
  ELSE IF Head(s).timestamp > x.timestamp THEN <<x>> \o s
       ELSE <<Head(s)>> \o InsertByTimestamp(Tail(s), x)

(* Array.prototype.sort((a, b) => a.timestamp - b.timestamp): stable *)
RECURSIVE SortByTimestamp(_)
SortByTimestamp(s) ==
  IF s = <<>> THEN <<>>
  ELSE InsertByTimestamp(SortByTimestamp(SubSeq(s, 1, Len(s) - 1)),
                         s[Len(s)])

RECURSIVE EntriesOf(_)
EntriesOf(S) ==
  IF S = {} THEN <<>>
  ELSE LET x == CHOOSE y \in S : \A z \in S : y.timestamp <= z.timestamp
       IN <<x>> \o EntriesOf(S \ {x})

IsMessage(x) == x.type = "message"

(* part_006 lines 299-313: the reactions map built from the interactions,
   one element for every interaction of type reaction and action added *)
RECURSIVE ReactionsFromInteractions(_)
ReactionsFromInteractions(log) ==
  IF log = <<>> THEN <<>>
  ELSE (IF Head(log).type = "reaction" /\ Head(log).action = "added"
        THEN <<ReactionEntry(Head(log).reaction, Head(log).userId,
                             Head(log).timestamp)>>
        ELSE <<>>) \o ReactionsFromInteractions(Tail(log))

(* part_006 lines 321-345: an element of the reactions path is added unless
   one with its user and timestamp is already listed under its emoji *)
RECURSIVE MergeReactions(_, _)
MergeReactions(map, old) ==
  IF old = <<>> THEN map
  ELSE LET x == Head(old)
           exists == \E i \in DOMAIN map :
                       /\ map[i].emoji = x.emoji
                       /\ map[i].userId = x.userId
                       /\ map[i].timestamp = x.timestamp
       IN MergeReactions(IF exists THEN map ELSE Append(map, x), Tail(old))

(* challengeMessagesController.js lines 166-183: the last 2 * limit
   interactions by timestamp, of these the messages, sorted, the last limit
   of them *)
MessagesFromInteractions(log) ==
  LET window == IF Len(log) <= 2 * Limit THEN log
                ELSE LastN(SortByTimestamp(log), 2 * Limit)
  IN LastN(SortByTimestamp(SelectSeq(window, IsMessage)), Limit)

(* lines 204-211: the children of the messages path, each given the type
   message, sorted *)
RECURSIVE WithType(_)
WithType(log) ==
  IF log = <<>> THEN <<>>
  ELSE <<[Head(log) EXCEPT !.type = "message"]>> \o WithType(Tail(log))

MessagesFromLegacy(log) == SortByTimestamp(WithType(LastN(log, Limit)))

(* lines 27-50 of both controllers: the gate every writer passes, as the
   status code it answers with *)
RoomGate(c, u) ==
  IF chat[c].status = "absent" THEN 404
  ELSE IF chat[c].status \notin {"accepted", "completed"} THEN 400
  ELSE IF u \notin {chat[c].challengerId, chat[c].challengedId} THEN 403
  ELSE 200

(* sendMessage lines 11-25: an empty message is refused at once *)
BeginMessage(r, k) ==
  /\ CanBegin(r, k)
  /\ \E u \in Users, c \in ChallengeIds, m \in Texts \cup {""} :
       req' = [req EXCEPT ![r] =
                 [IdleReq EXCEPT !.op = "message", !.uid = u,
                    !.challengeId = c, !.message = m,
                    !.pc = IF m = "" THEN "done" ELSE "m_get",
                    !.code = IF m = "" THEN 400 ELSE 0,
                    !.err = IF m = "" THEN "empty" ELSE "none"]]
  /\ UNCHANGED <<storeVars, bg, nextId, nextToken, envVars>>

(* lines 27-147: the room is read; past the gate the event is emitted, the
   two writes are started and success is returned without waiting for
   them *)
MessageGet(r) ==
  /\ req[r].op = "message" /\ req[r].pc = "m_get"
  /\ LET c == req[r].challengeId
         u == req[r].uid
         g == RoomGate(c, u)
         e == Entry("message", u, "none", "none", req[r].message, now)
     IN IF g # 200
        THEN Respond(r, g, "refused")
        ELSE req' = [req EXCEPT
                       ![r].pc = "done", ![r].code = 200,
                       ![r].events = <<Event("challenge_message")>>,
                       ![r].at = now,
                       ![r].writes =
                         {RoomWrite("interactions", e, {}),
                          RoomWrite("messages",
                                    [e EXCEPT !.type = "none"], {})}]
  /\ UNCHANGED <<storeVars, bg, nextId, nextToken, envVars>>

(* part_006 lines 11-25: a missing reaction is refused at once *)
BeginReact(r, k) ==
  /\ CanBegin(r, k)
  /\ \E u \in Users, c \in ChallengeIds, e \in Emojis \cup {""} :
       req' = [req EXCEPT ![r] =
                 [IdleReq EXCEPT !.op = "react", !.uid = u,
                    !.challengeId = c, !.reaction = e,
                    !.pc = IF e = "" THEN "done" ELSE "rx_get",
                    !.code = IF e = "" THEN 400 ELSE 0,
                    !.err = IF e = "" THEN "empty" ELSE "none"]]
  /\ UNCHANGED <<storeVars, bg, nextId, nextToken, envVars>>

(* part_006 lines 27-52: the gate of addReaction *)
ReactGet(r) ==
  /\ req[r].op = "react" /\ req[r].pc = "rx_get"
  /\ LET g == RoomGate(req[r].challengeId, req[r].uid)
     IN IF g # 200 THEN Respond(r, g, "refused") ELSE Goto(r, "rx_read")
  /\ UNCHANGED <<storeVars, bg, nextId, nextToken, envVars>>

(* part_006 lines 55-261: the reactions path is read; the user's element
   under the emoji is removed if there is one and added otherwise; the
   event is emitted, the write of the new map and the write of the
   interaction are started, and success is returned without waiting *)
ReactRead(r) ==
  /\ req[r].op = "react" /\ req[r].pc = "rx_read"
  /\ LET c == req[r].challengeId
         u == req[r].uid
         e == req[r].reaction
         cur == chat[c].reactions
         mine == {x \in cur : x.emoji = e /\ x.userId = u}
         first == CHOOSE x \in mine :
                    \A y \in mine : x.timestamp <= y.timestamp
         action == IF mine # {} THEN "removed" ELSE "added"
         new == IF mine # {} THEN cur \ {first}
                ELSE cur \cup {ReactionEntry(e, u, now)}
     IN req' = [req EXCEPT
                  ![r].pc = "done", ![r].code = 200,
                  ![r].events = <<Event("challenge_reaction")>>,
                  ![r].at = now, ![r].action = action,
                  ![r].reactions = new,
                  ![r].writes =
                    {RoomWrite("reactions",
                               Entry("none", "none", "none", "none", "none",
                                     Null), new),
                     RoomWrite("interactions",
                               Entry("reaction", u, e, action, "none", now),
                               {})}]
  /\ UNCHANGED <<storeVars, bg, nextId, nextToken, envVars>>

(* one of the writes a handler started reaches the store; set of the
   reactions path replaces the map, and remove leaves it empty *)
RoomWriteApply(r) ==
  \E w \in req[r].writes :
    LET c == req[r].challengeId
    IN /\ chat' =
            CASE w.path = "interactions" ->
                   [chat EXCEPT ![c].interactions = Append(@, w.entry)]
              [] w.path = "messages" ->
                   [chat EXCEPT ![c].messages = Append(@, w.entry)]
              [] OTHER -> [chat EXCEPT ![c].reactions = w.reactions]
       /\ req' = [req EXCEPT ![r].writes = @ \ {w}]
       /\ UNCHANGED <<storeVars, bg, nextId, nextToken, now, ticks, faults>>

(* the .catch of Promise.all: a failed write is logged; the response has
   been sent and the other write goes on *)
RoomWriteFails(r) ==
  \E w \in req[r].writes :
    /\ faults < MaxFaults
    /\ faults' = faults + 1
    /\ req' = [req EXCEPT ![r].writes = @ \ {w},
                          ![r].log = "db_write:error"]
    /\ UNCHANGED <<storeVars, bg, nextId, nextToken, now, ticks, chat>>

(* getMessages lines 160-189: the interactions are read; if there are any,
   their messages are the answer *)
BeginGetMessages(r, k) ==
  /\ CanBegin(r, k)
  /\ \E c \in ChallengeIds :
       req' = [req EXCEPT ![r] =
                 [IdleReq EXCEPT !.op = "getMessages", !.challengeId = c,
                    !.pc = "gm_read"]]
  /\ UNCHANGED <<storeVars, bg, nextId, nextToken, envVars>>

GetMessagesRead(r) ==
  /\ req[r].op = "getMessages" /\ req[r].pc = "gm_read"
  /\ LET log == chat[req[r].challengeId].interactions
     IN IF log # <<>>
        THEN req' = [req EXCEPT ![r].pc = "done", ![r].code = 200,
                                ![r].seen = log,
                                ![r].messages = MessagesFromInteractions(log)]
        ELSE Goto(r, "gm_legacy")
  /\ UNCHANGED <<storeVars, bg, nextId, nextToken, envVars>>

(* lines 191-216: with no interactions the messages path is the answer *)
GetMessagesLegacy(r) ==
  /\ req[r].op = "getMessages" /\ req[r].pc = "gm_legacy"
  /\ req' = [req EXCEPT
               ![r].pc = "done", ![r].code = 200,
               ![r].messages =
                 MessagesFromLegacy(chat[req[r].challengeId].messages)]
  /\ UNCHANGED <<storeVars, bg, nextId, nextToken, envVars>>

(* getReactions, part_006 lines 281-317: the interactions are read *)
BeginGetReactions(r, k) ==
  /\ CanBegin(r, k)
  /\ \E c \in ChallengeIds :
       req' = [req EXCEPT ![r] =
                 [IdleReq EXCEPT !.op = "getReactions", !.challengeId = c,
                    !.pc = "gr_read"]]
  /\ UNCHANGED <<storeVars, bg, nextId, nextToken, envVars>>

GetReactionsRead(r) ==
  /\ req[r].op = "getReactions" /\ req[r].pc = "gr_read"
  /\ LET log == chat[req[r].challengeId].interactions
     IN IF log # <<>>
        THEN req' = [req EXCEPT ![r].pc = "gr_merge", ![r].seen = log,
                                ![r].listed = ReactionsFromInteractions(log)]
        ELSE Goto(r, "gr_legacy")
  /\ UNCHANGED <<storeVars, bg, nextId, nextToken, envVars>>

(* part_006 lines 319-369: the reactions path is read and merged in *)
GetReactionsMerge(r) ==
  /\ req[r].op = "getReactions" /\ req[r].pc = "gr_merge"
  /\ req' = [req EXCEPT
               ![r].pc = "done", ![r].code = 200,
               ![r].listed =
                 MergeReactions(@, EntriesOf(
                   chat[req[r].challengeId].reactions))]
  /\ UNCHANGED <<storeVars, bg, nextId, nextToken, envVars>>

(* part_006 lines 371-404: with no interactions the reactions path is the
   answer *)
GetReactionsLegacy(r) ==
  /\ req[r].op = "getReactions" /\ req[r].pc = "gr_legacy"
  /\ req' = [req EXCEPT
               ![r].pc = "done", ![r].code = 200,
               ![r].listed = EntriesOf(chat[req[r].challengeId].reactions)]
  /\ UNCHANGED <<storeVars, bg, nextId, nextToken, envVars>>

(* the catch of each handler: a read that throws is answered with 500 *)
RoomReadFails(r) ==
  /\ req[r].pc \in {"m_get", "rx_get", "rx_read", "gm_read", "gm_legacy",
                   "gr_read", "gr_merge", "gr_legacy"}
  /\ faults < MaxFaults
  /\ faults' = faults + 1
  /\ Respond(r, 500, "error")
  /\ UNCHANGED <<storeVars, bg, nextId, nextToken, now, ticks, chat>>

(* The rooms between requests: room 1 belongs to the accepted challenge of
   A and B and is either new or holds one reaction that A added, written to
   both of its paths; every other room does not exist. *)
ReactedRoom(t) ==
  [status |-> "accepted", challengerId |-> "A", challengedId |-> "B",
   interactions |-> <<Entry("reaction", "A", "fire", "added", "none", t)>>,
   messages |-> <<>>, reactions |-> {ReactionEntry("fire", "A", t)}]

InitChat ==
  /\ InitStage("accepted", 0)
  /\ req = [r \in ReqIds |-> IdleReq]
  /\ bg = {}
  /\ now = 0
  /\ ticks = 0
  /\ faults = 0
  /\ \E room \in {ReactedRoom(0),
                   [ReactedRoom(0) EXCEPT !.interactions = <<>>,
                                          !.reactions = {}]} :
       chat = [c \in ChallengeIds |-> IF c = 1 THEN room ELSE NoRoom]

(* Chat requests running concurrently, with their background writes, store
   failures and the clock. *)
NextChat ==
  \/ \E r \in ReqIds :
       \/ BeginMessage(r, MaxReq)
       \/ BeginReact(r, MaxReq)
       \/ BeginGetMessages(r, MaxReq)
       \/ BeginGetReactions(r, MaxReq)
       \/ MessageGet(r)
       \/ ReactGet(r)
       \/ ReactRead(r)
       \/ GetMessagesRead(r)
       \/ GetMessagesLegacy(r)
       \/ GetReactionsRead(r)
       \/ GetReactionsMerge(r)
       \/ GetReactionsLegacy(r)
       \/ RoomWriteApply(r)
       \/ RoomWriteFails(r)
       \/ RoomReadFails(r)
       \/ RelayDone(r)
       \/ RelayFails(r)
  \/ Tick

SpecChat == InitChat /\ [][NextChat]_vars


(* ======================= properties of the engine ===================== *)
Done(r) == req[r].pc = "done"
Succeeded(r) == Done(r) /\ req[r].code = 200
Responds(r) == req[r].pc # "done" /\ req'[r].pc = "done"

RECURSIVE HeldSum(_)
HeldSum(ts) ==
  IF ts = <<>> THEN 0 ELSE (0 - Head(ts).amount) + HeldSum(Tail(ts))

(* C1: when both participants of an accepted challenge have submitted a
   score with success, whatever the interleaving of the two requests, the
   challenge is completed, holds both submitted scores and names the winner
   those two scores give. *)
C1_ConcurrentSubmitsComplete ==
  \A r1, r2 \in ReqIds :
    (/\ r1 # r2
     /\ req[r1].op = "submit" /\ req[r2].op = "submit"
     /\ Succeeded(r1) /\ Succeeded(r2)
     /\ req[r1].challengeId = req[r2].challengeId
     /\ req[r1].uid = req[r1].data.challengerId
     /\ req[r2].uid = req[r2].data.challengedId)
    => LET c == challenges[req[r1].challengeId]
       IN /\ c.status = "completed"
          /\ c.challengerScore = req[r1].score
          /\ c.challengedScore = req[r2].score
          /\ c.winnerId = Winner(c, req[r1].score, req[r2].score)

(* C2: two Accept requests for the same challenge never both return
   success. *)
C2_OneAcceptSucceeds ==
  \A r1, r2 \in ReqIds :
    (/\ r1 # r2
     /\ req[r1].op = "accept" /\ req[r2].op = "accept"
     /\ req[r1].challengeId = req[r2].challengeId
     /\ Done(r1) /\ Done(r2))
    => ~(req[r1].code = 200 /\ req[r2].code = 200)

(* C3: a challenge's status changes only along pending->accepted,
   pending->rejected, pending->cancelled and accepted->completed (and from
   absent to pending when it is created). *)
ForwardEdges ==
  {<<"absent", "pending">>, <<"pending", "accepted">>,
   <<"pending", "rejected">>, <<"pending", "cancelled">>,
   <<"accepted", "completed">>}

C3_StatusMovesForward ==
  [][\A c \in ChallengeIds :
       challenges'[c].status # challenges[c].status
         => <<challenges[c].status, challenges'[c].status>> \in ForwardEdges
    ]_vars

(* C5: once all requests have finished (two Creates, or a Create and an
   Accept), every user's available balance is the initial balance minus the
   sum of the holds recorded for that user, and the escrow balance is that
   sum: no hold is lost. *)
C5_NoLostHold ==
  (/\ InFlight = {}
   /\ \A r1, r2 \in ReqIds :
        r1 # r2 => ~(req[r1].op = "accept" /\ req[r2].op = "accept"))
  =>
    \A u \in Users :
      /\ wallet[u].amount = InitBalance - HeldSum(txns[u])
      /\ wallet[u].escrowBalance = HeldSum(txns[u])

(* C4: a Create that returns success with bet b leaves the challenger's
   available balance b lower and the escrow balance b higher than they were
   before it, and has appended exactly one escrow transaction record for the
   new challenge id: amount -b, balanceBefore and balanceAfter the available
   balance before and after. *)
TxnsOf(u, cid) ==
  {i \in DOMAIN txns'[u] : txns'[u][i].challengeId = cid}

C4_CreateHoldsBet ==
  [][\A r \in ReqIds :
       /\ (req[r].op = "create" /\ req[r].pc = "c_debit")
            => /\ wallet[req[r].uid].amount = req[r].bal
               /\ wallet[req[r].uid].escrowBalance = req[r].esc
       /\ (Responds(r) /\ req'[r].op = "create" /\ req'[r].code = 200)
            => LET u == req[r].uid
                   b == req[r].bet
                   cid == req[r].challengeId
               IN /\ wallet'[u].amount = req[r].bal - b
                  /\ wallet'[u].escrowBalance = req[r].esc + b
                  /\ Cardinality(TxnsOf(u, cid)) = 1
                  /\ \A i \in TxnsOf(u, cid) :
                       /\ txns'[u][i].amount = 0 - b
                       /\ txns'[u][i].type = "escrow"
                       /\ txns'[u][i].balanceBefore = req[r].bal
                       /\ txns'[u][i].balanceAfter = wallet'[u].amount
                  /\ challenges'[cid].status = "pending"
                  /\ challenges'[cid].betAmount = b
    ]_vars

C4_Witness ==
  \E r \in ReqIds :
    /\ req[r].op = "create" /\ Succeeded(r)
    /\ wallet[req[r].uid] = [amount |-> req[r].bal - req[r].bet,
                             escrowBalance |-> req[r].esc + req[r].bet]
    /\ \E i \in DOMAIN txns[req[r].uid] :
         txns[req[r].uid][i].challengeId = req[r].challengeId

(* C6: after a successful Reject or Cancel the challenger's escrow holds no
   funds for the rejected or cancelled challenge: it equals the bets of the
   challenges the challenger still has a hold for. *)
RECURSIVE EscrowOwedIn(_, _)
EscrowOwedIn(u, cs) ==
  IF cs = {} THEN 0
  ELSE LET c == CHOOSE x \in cs : TRUE
           ch == challenges[c]
           held == \/ ch.challengerId = u
                      /\ ch.status \in {"pending", "accepted", "completed"}
                   \/ ch.challengedId = u
                      /\ ch.status \in {"accepted", "completed"}
       IN (IF held THEN ch.betAmount ELSE 0) + EscrowOwedIn(u, cs \ {c})

EscrowOwed(u) == EscrowOwedIn(u, ChallengeIds)

C6_DeclineReleasesHold ==
  \A r \in ReqIds :
    (req[r].op \in {"reject", "cancel"} /\ Succeeded(r))
    => wallet[req[r].data.challengerId].escrowBalance
         = EscrowOwed(req[r].data.challengerId)

(* C7, as claimed: when the status write of an Accept fails after the debit,
   the challenged party's balances are back at their pre-Accept values and
   the challenge is still pending when the error is returned. *)
C7_RollbackAlwaysRestores ==
  [][\A r \in ReqIds :
       (Responds(r) /\ req'[r].op = "accept"
          /\ req'[r].thrownAt = "a_status")
       => /\ req'[r].code = 500
          /\ wallet'[req[r].uid] = [amount |-> req[r].bal,
                                    escrowBalance |-> req[r].esc]
          /\ challenges'[req[r].challengeId].status = "pending"
    ]_vars

(* C7, amended: when the status write of an Accept fails after the debit,
   the error is returned with the challenge still pending; the challenged
   party's balances are back at their pre-Accept values if the rollback
   write succeeded, and still carry the debit if the rollback write failed
   too. *)
C7_RollbackRestoresIfWritten ==
  [][\A r \in ReqIds :
       /\ (req[r].op = "accept" /\ req[r].pc = "a_debit")
            => wallet[req[r].uid] = [amount |-> req[r].bal,
                                     escrowBalance |-> req[r].esc]
       /\ (Responds(r) /\ req'[r].op = "accept"
             /\ req'[r].thrownAt = "a_status")
            => /\ req'[r].code = 500
               /\ challenges'[req[r].challengeId].status = "pending"
               /\ req'[r].log = "accept:rollback:success"
                    => wallet'[req[r].uid] = [amount |-> req[r].bal,
                                              escrowBalance |-> req[r].esc]
               /\ req'[r].log = "accept:rollback:failed"
                    => wallet'[req[r].uid]
                         = HoldWallet(req[r].bal, req[r].esc,
                                      req[r].data.betAmount)
    ]_vars

C7_Witness ==
  \E r \in ReqIds :
    /\ req[r].op = "accept" /\ Done(r) /\ req[r].code = 500
    /\ req[r].thrownAt = "a_status"
    /\ req[r].log = "accept:rollback:success"
    /\ wallet[req[r].uid] = [amount |-> req[r].bal,
                             escrowBalance |-> req[r].esc]
    /\ challenges[req[r].challengeId].status = "pending"

(* C8: a valid Create for the same (challenger, challenged, game) as an
   earlier Create that returned success and whose challenge is still
   pending is refused with the conflict error naming that challenge (no
   store operation failing). *)
C8_SecondCreateRefused ==
  \A r1, r2 \in ReqIds :
    (/\ r1 < r2 /\ faults = 0
     /\ req[r1].op = "create" /\ req[r2].op = "create"
     /\ Succeeded(r1) /\ Done(r2)
     /\ req[r2].uid = req[r1].uid
     /\ req[r2].challengedId = req[r1].challengedId
     /\ req[r2].gameId = req[r1].gameId
     /\ req[r2].bet >= MinBet /\ req[r2].bet <= MaxBet
     /\ challenges[req[r1].challengeId].status = "pending")
    => /\ req[r2].code = 409
       /\ req[r2].err = "dup_pending"
       /\ req[r2].existing = req[r1].challengeId

(* C9: the overlap guard refuses a Create only because of an accepted
   challenge for which no score has been submitted; a submitted 0 is a
   submitted score. *)
C9_OverlapOnlyWithoutScores ==
  \A r \in ReqIds :
    (req[r].op = "create" /\ Done(r) /\ req[r].err = "dup_active")
    => /\ req[r].data.challengerScore = Null
       /\ req[r].data.challengedScore = Null

(* C10: a challenge with both score slots filled is completed, 0 being a
   score like any other; with both scores 0 the winner is "tie". *)
C10_ZeroIsAScore ==
  \A c \in ChallengeIds :
    LET ch == challenges[c]
    IN (ch.challengerScore # Null /\ ch.challengedScore # Null)
       => /\ ch.status = "completed"
          /\ (ch.challengerScore = 0 /\ ch.challengedScore = 0)
               => ch.winnerId = "tie"

C10_Witness ==
  \E r \in ReqIds :
    /\ req[r].op = "submit" /\ Succeeded(r) /\ req[r].score = 0
    /\ LET ch == challenges[req[r].challengeId]
       IN /\ ch.challengerScore = 0 /\ ch.challengedScore = 0
          /\ ch.status = "completed" /\ ch.winnerId = "tie"

(* C11: in every state, for every challenge record: both score slots are
   filled exactly when the status is completed; winnerId is set exactly when
   the status is completed; and a rejected, cancelled or completed record
   carries exactly one of rejectedAt, cancelledAt, completedAt, the one of
   its status. *)
TerminalStamps(ch) ==
  {s \in {"rejected", "cancelled", "completed"} :
     \/ s = "rejected" /\ ch.rejectedAt # Null
     \/ s = "cancelled" /\ ch.cancelledAt # Null
     \/ s = "completed" /\ ch.completedAt # Null}

C11_RecordInvariants ==
  \A c \in ChallengeIds :
    LET ch == challenges[c]
    IN Exists(ch) =>
         /\ (ch.challengerScore # Null /\ ch.challengedScore # Null)
              <=> ch.status = "completed"
         /\ ch.winnerId # "none" <=> ch.status = "completed"
         /\ ch.status \in {"rejected", "cancelled", "completed"}
              => TerminalStamps(ch) = {ch.status}

(* C12: the step that completes a challenge records as winnerId the
   challenger if the record's challengerScore is the greater, the challenged
   party if challengedScore is the greater, and "tie" if they are equal;
   winnerId takes no other value; and a score write that leaves a slot empty
   sets neither status completed nor winnerId. *)
C12_WinnerMatchesScores ==
  [][\A c \in ChallengeIds :
       LET old == challenges[c]
           new == challenges'[c]
       IN /\ new.winnerId \in {"none", "tie", new.challengerId,
                               new.challengedId}
          /\ (old.status # "completed" /\ new.status = "completed")
               => new.winnerId
                    = Winner(new, new.challengerScore, new.challengedScore)
          /\ (new # old /\ old.status = "accepted"
                /\ (new.challengerScore = Null \/ new.challengedScore = Null))
               => new.status = "accepted" /\ new.winnerId = "none"
    ]_vars

(* C13: a session token authorises at most one successful SubmitScore: once
   a SubmitScore presenting token t has returned success the session of t is
   gone, and no other SubmitScore presenting t, whether issued later or
   running at the same time, returns success. *)
C13_TokenUsedOnce ==
  \A r1 \in ReqIds :
    (req[r1].op = "submit" /\ Succeeded(r1))
    => /\ sessions[req[r1].token] = NoSession
       /\ \A r2 \in ReqIds :
            (r2 # r1 /\ req[r2].op = "submit" /\ Done(r2)
               /\ req[r2].token = req[r1].token)
            => req[r2].code # 200

(* C14: the session gate of SubmitScore answers a token that is not in the
   session store, a token bound to another user or another challenge, and a
   token past its expiry time with three different errors, and in each of
   the three cases the request ends there: no score is written, no status
   changes and the session store stays as it was. *)
C14_SessionGateRefuses ==
  [][\A r \in ReqIds :
       (req[r].pc = "sc_session" /\ req'[r] # req[r])
       => LET ses == sessions[req[r].token]
              absent == ses = NoSession
              foreign == /\ ~absent
                         /\ \/ ses.userId # req[r].uid
                            \/ ses.challengeId # req[r].challengeId
              expired == ~absent /\ ~foreign /\ now > ses.expiresAt
          IN /\ absent => req'[r].err = "session_not_found"
             /\ foreign => req'[r].err = "session_mismatch"
             /\ expired => req'[r].err = "session_expired"
             /\ (absent \/ foreign \/ expired)
                  => /\ req'[r].pc = "done" /\ req'[r].code = 403
                     /\ UNCHANGED storeVars
             /\ ~(absent \/ foreign \/ expired) => req'[r].pc = "sc_get"
    ]_vars

C14_Witness ==
  \E r1, r2 \in ReqIds :
    /\ req[r1].op = "submit" /\ Done(r1) /\ req[r1].err = "session_expired"
    /\ sessions[req[r1].token] # NoSession
    /\ now > sessions[req[r1].token].expiresAt
    /\ req[r2].op = "submit" /\ Done(r2)
    /\ req[r2].err \in {"session_not_found", "session_mismatch"}

(* C15: StartSession goes on to create a session exactly when the challenge
   exists, is accepted and the caller is one of its two participants, and
   otherwise answers with an error and changes nothing; the session store
   changes only by the creation of one session under a fresh token, bound to
   the request's challenge and caller, created now and expiring SessionTTL
   (30 minutes) later, for a challenge that is accepted. *)
C15_SessionOnlyForAccepted ==
  [][/\ \A r \in ReqIds :
          (req[r].pc = "s_get" /\ req'[r] # req[r])
          => LET c == challenges[req[r].challengeId]
                 ok == /\ Exists(c)
                       /\ req[r].uid \in {c.challengerId, c.challengedId}
                       /\ c.status = "accepted"
             IN /\ ok => req'[r].pc = "s_set"
                /\ ~ok => /\ req'[r].pc = "done"
                          /\ req'[r].code \in {400, 403, 404}
                /\ UNCHANGED storeVars
     /\ sessions' # sessions
          => \E r \in ReqIds :
               LET c == challenges[req[r].challengeId]
               IN /\ req[r].op = "start" /\ Responds(r)
                  /\ req'[r].code = 200
                  /\ c.status = "accepted"
                  /\ req[r].uid \in {c.challengerId, c.challengedId}
                  /\ sessions[req[r].token] = NoSession
                  /\ sessions' = [sessions EXCEPT ![req[r].token] =
                       [challengeId |-> req[r].challengeId,
                        userId |-> req[r].uid, createdAt |-> now,
                        expiresAt |-> now + 30 * 60 * 1000]]
    ]_vars

C15_Witness ==
  \E r \in ReqIds :
    /\ req[r].op = "start" /\ Succeeded(r)
    /\ challenges[req[r].challengeId].status = "accepted"
    /\ sessions[req[r].token].userId = req[r].uid
    /\ sessions[req[r].token].challengeId = req[r].challengeId
    /\ sessions[req[r].token].createdAt > 0
    /\ sessions[req[r].token].expiresAt
         = sessions[req[r].token].createdAt + SessionTTL

(* C16: an Accept that returns success was made by the challenged party of
   a challenge it found pending and unexpired; it leaves that party's
   available balance betAmount lower and escrow betAmount higher than it
   found them, has appended one escrow transaction record for the challenge
   (amount -betAmount, balanceBefore and balanceAfter the available balance
   before and after), and leaves the challenge record as it found it except
   for status accepted and acceptedAt; a wallet changes only if it is the
   accepting party's, so the challenger's wallet stays as it was. *)
C16_AcceptHoldsBet ==
  [][/\ \A r \in ReqIds :
          LET u == req[r].uid
              cid == req[r].challengeId
              b == req[r].data.betAmount
          IN /\ (req[r].op = "accept" /\ req[r].pc = "a_debit")
                  => /\ wallet[u].amount = req[r].bal
                     /\ wallet[u].escrowBalance = req[r].esc
                     /\ challenges[cid] = req[r].data
             /\ (Responds(r) /\ req'[r].op = "accept" /\ req'[r].code = 200)
                  => /\ req[r].data.status = "pending"
                     /\ req[r].data.challengedId = u
                     /\ now <= req[r].data.expiresAt
                     /\ wallet'[u].amount = req[r].bal - b
                     /\ wallet'[u].escrowBalance = req[r].esc + b
                     /\ txns'[u][Len(txns'[u])].challengeId = cid
                     /\ txns'[u][Len(txns'[u])].balanceAfter
                          = wallet'[u].amount
                     /\ challenges'[cid].acceptedAt = now
                     /\ challenges'[cid] =
                          [req[r].data EXCEPT !.status = "accepted",
                                              !.acceptedAt = now]
     /\ txns' # txns
          => \E r \in ReqIds :
               /\ req[r].op = "accept" /\ req[r].pc = "a_txn"
               /\ txns' = [txns EXCEPT ![req[r].uid] = Append(@,
                    [amount |-> 0 - req[r].data.betAmount, type |-> "escrow",
                     balanceBefore |-> req[r].bal,
                     balanceAfter |-> wallet[req[r].uid].amount,
                     challengeId |-> req[r].challengeId,
                     kind |-> "challenge_accepted"])]
     /\ \A v \in Users :
          wallet'[v] # wallet[v]
          => \E r \in ReqIds :
               /\ req[r].op = "accept" /\ req[r].uid = v
               /\ req[r].pc \in {"a_debit", "a_rollback"}
               /\ req[r].data.challengedId = v
               /\ req[r].data.challengerId # v
    ]_vars

C16_Witness ==
  \E r \in ReqIds :
    /\ req[r].op = "accept" /\ Succeeded(r)
    /\ wallet[req[r].uid] =
         [amount |-> req[r].bal - req[r].data.betAmount,
          escrowBalance |-> req[r].esc + req[r].data.betAmount]
    /\ challenges[req[r].challengeId].status = "accepted"
    /\ challenges[req[r].challengeId].acceptedAt = req[r].at
    /\ wallet[req[r].data.challengerId] = HoldWallet(InitBalance, 0, MinBet)

(* C17: when Accept or Reject reads a challenge whose challenged party is
   not the caller, or Cancel one whose challenger is not the caller, or any
   of the three one that is not pending, the request ends there with an
   error (403 for the wrong caller, else 400; 500 if the read itself
   failed) and the challenge records, the wallets, the transaction lists,
   the index and the session store are left as they were. *)
C17_WrongCallerOrStatusRefused ==
  [][\A r \in ReqIds :
       (req[r].pc \in {"a_get", "r_get", "x_get"} /\ req'[r] # req[r])
       => LET c == challenges[req[r].challengeId]
              wrongCaller ==
                IF req[r].op = "cancel" THEN c.challengerId # req[r].uid
                ELSE c.challengedId # req[r].uid
          IN (Exists(c) /\ (wrongCaller \/ c.status # "pending"))
             => /\ req'[r].pc = "done"
                /\ req'[r].code =
                     IF faults' # faults THEN 500
                     ELSE IF wrongCaller THEN 403 ELSE 400
                /\ UNCHANGED <<storeVars, bg>>
    ]_vars

C17_Witness ==
  \E r1, r2 \in ReqIds :
    /\ req[r1].op \in {"accept", "reject", "cancel"} /\ Done(r1)
    /\ req[r1].err = "unauthorized"
    /\ Exists(challenges[req[r1].challengeId])
    /\ req[r2].op \in {"accept", "reject", "cancel"} /\ Done(r2)
    /\ req[r2].err = "not_pending"
    /\ challenges[req[r2].challengeId].status # "pending"

(* C18: an Accept, Reject or Cancel by the right caller that reads a pending
   challenge after its expiresAt ends there with the expiry error and the
   challenge stays as it was; so no request evaluated after expiresAt moves
   a challenge out of pending. *)
C18_ExpiredIsRefused ==
  [][\A r \in ReqIds :
       (req[r].pc \in {"a_get", "r_get", "x_get"} /\ req'[r] # req[r])
       => LET c == challenges[req[r].challengeId]
              caller == IF req[r].op = "cancel" THEN c.challengerId
                        ELSE c.challengedId
          IN (/\ Exists(c) /\ caller = req[r].uid
              /\ c.status = "pending" /\ now > c.expiresAt)
             => /\ req'[r].pc = "done"
                /\ req'[r].code = 400
                /\ req'[r].err = "expired"
                /\ challenges' = challenges
    ]_vars

(* C19: when Create (for the challenger) or Accept (for the challenged
   party) reads a wallet whose available balance is smaller than the bet,
   the request ends there with the insufficient-funds error; when the user
   has no record it ends there with user-not-found; in both cases balances,
   transaction lists, challenge records, index and sessions are left as
   they were.  With enough funds the request goes on to the debit. *)
C19_HoldNeedsFunds ==
  [][\A r \in ReqIds :
       (req[r].pc \in {"c_getUser", "a_getUser"} /\ req'[r] # req[r])
       => LET w == wallet[req[r].uid]
              b == IF req[r].op = "create" THEN req[r].bet
                   ELSE req[r].data.betAmount
          IN /\ w = NoUser
                  => /\ req'[r].pc = "done" /\ req'[r].code = 404
                     /\ req'[r].err = "user_not_found"
                     /\ UNCHANGED <<storeVars, bg>>
             /\ (w # NoUser /\ w.amount < b)
                  => /\ req'[r].pc = "done" /\ req'[r].code = 400
                     /\ req'[r].err = "insufficient"
                     /\ UNCHANGED <<storeVars, bg>>
             /\ (w # NoUser /\ w.amount >= b)
                  => req'[r].pc \in {"c_debit", "a_debit"}
    ]_vars

C19_Witness ==
  \E r1, r2 \in ReqIds :
    /\ Done(r1) /\ req[r1].err = "insufficient"
    /\ wallet[req[r1].uid].amount < MinBet
    /\ Done(r2) /\ req[r2].err = "user_not_found"
    /\ wallet[req[r2].uid] = NoUser
    /\ {req[r1].op, req[r2].op} = {"create", "accept"}

(* C20: whenever no operation is running, each user's transaction records
   account for every change of the user's balances, one record per change:
   the first record starts from the initial balance, each record starts
   where the previous one ended, the last one ends at the current available
   balance, and the escrow balance is the sum of the recorded holds; with no
   record the balances are the initial ones. *)
C20_EveryChangeHasItsRecord ==
  InFlight = {} =>
    \A u \in Users :
      LET ts == txns[u]
          n == Len(ts)
      IN IF n = 0
         THEN wallet[u] = [amount |-> InitBalance, escrowBalance |-> 0]
         ELSE /\ ts[1].balanceBefore = InitBalance
              /\ \A i \in 1..(n - 1) :
                   ts[i + 1].balanceBefore = ts[i].balanceAfter
              /\ \A i \in 1..n :
                   ts[i].balanceAfter = ts[i].balanceBefore + ts[i].amount
              /\ ts[n].balanceAfter = wallet[u].amount
              /\ wallet[u].amount + wallet[u].escrowBalance = InitBalance

(* C21: no step of any handler, in any interleaving of requests, lowers a
   user's total of available balance and escrow. *)
Total(u) == wallet[u].amount + wallet[u].escrowBalance

C21_TotalNeverDecreases ==
  [][\A u \in Users :
       wallet'[u].amount + wallet'[u].escrowBalance >= Total(u)]_vars

(* an Accept was rolled back after its debit while a Create of the same
   user's opponent went through *)
C21_Witness ==
  \E r \in ReqIds, q \in ReqIds :
    /\ req[r].op = "accept" /\ req[r].log = "accept:rollback:success"
    /\ req[r].thrownAt \in {"a_txn", "a_status"}
    /\ req[q].op = "create" /\ Succeeded(q)
    /\ Total(req[r].uid) = InitBalance
    /\ wallet[req[q].uid].escrowBalance > 0

(* C22: when the duplicate check of a Create throws, the request is not
   refused for it: it goes on to the balance check, and from there it ends
   as a Create whose check found nothing ends, with the hold and the
   pending challenge written when it succeeds. *)
CheckPcs == {"c_idxPending", "c_getPending", "c_idxAccepted", "c_getAccepted"}

C22_CheckFailureDegradesOpen ==
  [][\A r \in ReqIds :
       /\ (req[r].pc \in CheckPcs /\ faults' # faults /\ req'[r] # req[r])
            => /\ req'[r].pc = "c_getUser"
               /\ UNCHANGED storeVars
       /\ (req[r].log = "create:duplicate_check:error" /\ Responds(r))
            => /\ req'[r].err \in {"none", "insufficient", "user_not_found",
                                   "failed"}
               /\ req'[r].err = "failed" => faults' # faults
               /\ req'[r].err = "none"
                    => /\ req'[r].code = 200
                       /\ challenges'[req[r].challengeId].status = "pending"
                       /\ \E i \in DOMAIN txns[req[r].uid] :
                            /\ txns[req[r].uid][i].challengeId
                                 = req[r].challengeId
                            /\ txns[req[r].uid][i].amount = 0 - req[r].bet]_vars

(* a Create that repeats the pending challenge 1 succeeded because its
   duplicate check threw *)
C22_Witness ==
  \E r \in ReqIds :
    /\ req[r].op = "create" /\ Succeeded(r)
    /\ req[r].log = "create:duplicate_check:error"
    /\ DuplicatePending(challenges[1], req[r].uid, req[r].challengedId,
                        req[r].gameId)
    /\ req[r].challengeId # 1
    /\ challenges[req[r].challengeId].status = "pending"

(* C23: once the challenge record write of a transition has succeeded, a
   failure of the index update that follows it does not fail the request:
   a request that answers from its index update step answers with
   success. *)
IndexPcs == {"r_index", "x_index", "sc_index"}

C23_IndexFailureNeverFailsRequest ==
  [][\A r \in ReqIds :
       (req[r].pc \in IndexPcs /\ Responds(r)) => req'[r].code = 200]_vars

(* C24: a request whose challenge record write has succeeded dispatches the
   event of its transition exactly once, with the answer; a request that
   was refused dispatches none; a dispatched event is posted once and a
   failed post is not posted again. *)
EventTypes(r) ==
  CASE req[r].op = "create" -> {"challenge_created"}
    [] req[r].op = "accept" -> {"challenge_accepted"}
    [] req[r].op = "reject" -> {"challenge_rejected"}
    [] req[r].op = "cancel" -> {"challenge_cancelled"}
    [] req[r].op = "submit" -> {"score_updated", "challenge_completed"}
    [] OTHER -> {}

RecordWritten(r) ==
  \/ req[r].pc \in {"r_index", "x_index", "sc_index", "sc_remove"}
  \/ /\ req[r].pc \in {"c_set", "a_status"}
     /\ challenges'[req[r].challengeId] # challenges[req[r].challengeId]

C24_OneEventPerTransition ==
  [][\A r \in ReqIds :
       /\ (Responds(r) /\ RecordWritten(r))
            => /\ req'[r].events # <<>>
               /\ \A i \in DOMAIN req'[r].events :
                    /\ req'[r].events[i].type \in EventTypes(r)
                    /\ \A j \in DOMAIN req'[r].events :
                         req'[r].events[j].type = req'[r].events[i].type
                           => j = i
       /\ (Responds(r) /\ ~RecordWritten(r)) => req'[r].events = <<>>
       /\ ~Responds(r)
            => /\ Len(req'[r].events) = Len(req[r].events)
               /\ \A i \in DOMAIN req[r].events :
                    /\ req'[r].events[i].type = req[r].events[i].type
                    /\ req[r].events[i].sent # "pending"
                         => req'[r].events[i] = req[r].events[i]]_vars

(* C25: a Create in which the challenger challenges themselves, or whose
   bet is below MinBet or above MaxBet, is answered with the validation
   error at once: no wallet is read or written, no challenge record, no
   index entry and no index update is made, and no event is emitted. *)
C25_InvalidCreateRefused ==
  [][\A r \in ReqIds :
       (/\ req[r].pc = "idle" /\ req'[r].op = "create"
        /\ \/ req'[r].uid = req'[r].challengedId
           \/ req'[r].bet < MinBet
           \/ req'[r].bet > MaxBet)
       => /\ req'[r].pc = "done"
          /\ req'[r].code = 400
          /\ req'[r].err \in {"self", "bad_bet"}
          /\ req'[r].bal = Null /\ req'[r].esc = Null
          /\ req'[r].challengeId = Null
          /\ req'[r].events = <<>>
          /\ UNCHANGED <<storeVars, bg, nextId>>]_vars

(* one Create was refused for challenging oneself with a valid bet, another
   for a bet out of range between two different users *)
C25_Witness ==
  \E r1, r2 \in ReqIds :
    /\ Done(r1) /\ req[r1].op = "create" /\ req[r1].err = "self"
    /\ req[r1].bet >= MinBet /\ req[r1].bet <= MaxBet
    /\ Done(r2) /\ req[r2].op = "create" /\ req[r2].err = "bad_bet"
    /\ req[r2].uid # req[r2].challengedId

(* C26: once every request has answered and every background index update
   has been applied, none having failed, each participant's index lists a
   challenge under the status of its record, and nobody else's index lists
   it. *)
C26_IndexSettlesOnRecord ==
  (InFlight = {} /\ bg = {} /\ faults = 0)
    => \A c \in ChallengeIds, u \in Users :
         userIndex[u][c]
           = IF Exists(challenges[c])
                /\ u \in {challenges[c].challengerId, challenges[c].challengedId}
             THEN challenges[c].status ELSE "none"

(* C27: a call of a push sender always returns normally.  Without a
   registered token, or with a failing token lookup, it returns having sent
   nothing; a failing name lookup is logged and the send goes on; a failing
   send is logged. *)
C27_PushNeverThrows ==
  [][\A r \in ReqIds :
       req[r].op = "push"
       => /\ Responds(r)
               => /\ req'[r].err = "none"
                  /\ req[r].pc = "p_token" => req'[r].events = <<>>
                  /\ faults' # faults => req'[r].log # "none"
          /\ (~Responds(r) /\ req'[r] # req[r] /\ faults' # faults)
               => /\ req'[r].pc = "p_send"
                  /\ req'[r].log # "none"]_vars

(* one call returned without sending for want of a token; another lost its
   name lookup and then its send, and returned *)
C27_Witness ==
  \E r1, r2 \in ReqIds :
    /\ Done(r1) /\ req[r1].op = "push" /\ req[r1].log = "fcm:no_token"
    /\ req[r1].events = <<>> /\ req[r1].err = "none"
    /\ Done(r2) /\ req[r2].op = "push" /\ req[r2].log = "fcm:send_error"
    /\ req[r2].err = "none"
    /\ req[r2].events = <<Push(req[r2].kind, "Someone", "failed")>>
    /\ faults = 2

(* C28: once the winnerId and completedAt of a challenge are set, no step
   changes them. *)
C28_ResultIsFinal ==
  [][\A c \in ChallengeIds :
       challenges[c].winnerId # "none"
       => /\ challenges'[c].winnerId = challenges[c].winnerId
          /\ challenges'[c].completedAt = challenges[c].completedAt]_vars

(* C29: a score slot that holds a score is never written again. *)
C29_ScoreSlotWrittenOnce ==
  [][\A c \in ChallengeIds :
       /\ challenges[c].challengerScore # Null
            => challenges'[c].challengerScore = challenges[c].challengerScore
       /\ challenges[c].challengedScore # Null
            => challenges'[c].challengedScore = challenges[c].challengedScore]_vars

(* C30: of the Accept, Reject and Cancel requests on one challenge at most
   one returns success: no two of these requests both succeed on the same
   challenge. *)
DecideOps == {"accept", "reject", "cancel"}

C30_OneDecisionSucceeds ==
  \A r1, r2 \in ReqIds :
    (/\ req[r1].op \in DecideOps /\ req[r2].op \in DecideOps
     /\ r1 # r2
     /\ req[r1].challengeId = req[r2].challengeId
     /\ Succeeded(r1))
    => ~Succeeded(r2)

(* C31: a Create that answers with an error after it has read the wallet
   leaves the challenger's available and escrow balances at the values it
   read: no funds stay held for a challenge that was not created. *)
C31_FailedCreateHoldsNothing ==
  [][\A r \in ReqIds :
       (/\ req[r].op = "create" /\ Responds(r)
        /\ req'[r].code # 200
        /\ req[r].pc \in {"c_debit", "c_txn", "c_set"})
       => wallet'[req[r].uid]
            = [amount |-> req[r].bal, escrowBalance |-> req[r].esc]]_vars

(* C32: no two pending challenges exist between the same two users, in
   either direction, for the same game. *)
C32_OnePendingPerPairAndGame ==
  \A c1, c2 \in ChallengeIds :
    (/\ c1 # c2
     /\ challenges[c1].status = "pending"
     /\ challenges[c2].status = "pending"
     /\ challenges[c1].gameId = challenges[c2].gameId)
    => ~SamePair(challenges[c1], challenges[c2].challengerId,
                 challenges[c2].challengedId)

(* C33: the rollback of a failed Accept undoes that Accept's debit and
   nothing else: it raises the available balance by the bet and lowers the
   escrow by the bet (and changes nothing when the debit itself had
   failed), whatever other operations wrote to the wallet in between. *)
C33_RollbackUndoesOwnDebitOnly ==
  [][\A r \in ReqIds :
       (req[r].pc = "a_rollback" /\ Responds(r)
          /\ req'[r].log = "accept:rollback:success")
       => wallet'[req[r].uid]
            = IF req[r].thrownAt = "a_debit" THEN wallet[req[r].uid]
              ELSE [amount |-> wallet[req[r].uid].amount
                                 + req[r].data.betAmount,
                    escrowBalance |-> wallet[req[r].uid].escrowBalance
                                        - req[r].data.betAmount]]_vars

(* C34: a step that changes a challenge record is the score write of a
   SubmitScore request by one of the two participants, and it leaves the
   other participant's score slot and both participant ids as they are. *)
C34_OnlyOwnSlotWritten ==
  [][\A c \in ChallengeIds :
       challenges'[c] # challenges[c]
       => \E r \in ReqIds :
            /\ req[r].op = "submit" /\ req[r].pc = "sc_update"
            /\ req'[r].pc # "sc_update"
            /\ req[r].challengeId = c
            /\ req[r].uid \in {challenges[c].challengerId,
                               challenges[c].challengedId}
            /\ challenges'[c].challengerId = challenges[c].challengerId
            /\ challenges'[c].challengedId = challenges[c].challengedId
            /\ req[r].uid = challenges[c].challengerId
                 => challenges'[c].challengedScore
                      = challenges[c].challengedScore
            /\ req[r].uid = challenges[c].challengedId
                 => challenges'[c].challengerScore
                      = challenges[c].challengerScore]_vars

(* both participants submitted, overlapping, and each slot holds the score
   of its owner's request; the two scores differ *)
C34_Witness ==
  \E r1, r2 \in ReqIds :
    /\ Succeeded(r1) /\ req[r1].op = "submit" /\ req[r1].uid = "A"
    /\ Succeeded(r2) /\ req[r2].op = "submit" /\ req[r2].uid = "B"
    /\ req[r1].score # req[r2].score
    /\ req[r2].data.challengerScore = Null
    /\ req[r1].data.challengedScore = Null
    /\ challenges[1].challengerScore = req[r1].score
    /\ challenges[1].challengedScore = req[r2].score

(* C35: no user's available balance and no user's escrow balance is
   negative, in any state reached by overlapping Create and Accept requests
   and rollbacks. *)
C35_BalancesNeverNegative ==
  \A u \in Users :
    wallet[u] # NoUser
    => wallet[u].amount >= 0 /\ wallet[u].escrowBalance >= 0

(* a Create was refused for want of funds after the same user's Accept had
   taken the whole balance *)
C35_Witness ==
  \E r, q \in ReqIds :
    /\ req[r].op = "create" /\ Done(r) /\ req[r].err = "insufficient"
    /\ req[q].op = "accept" /\ Succeeded(q) /\ req[q].uid = req[r].uid
    /\ req[q].bal = req[q].data.betAmount
    /\ wallet[req[r].uid].amount = 0

(* C36: without a local socket server, a call of any emit function hands
   its event to the relay. *)
C36_NoIoMeansRelay ==
  \A r \in ReqIds :
    (req[r].op = "emit" /\ Done(r) /\ ~req[r].io)
    => \E i \in DOMAIN req[r].events :
         /\ req[r].events[i].type = req[r].kind
         /\ req[r].events[i].via = "relay"


(* the records of user u and emoji e in the log, and the case in which the
   user added the reaction and the last record removes it *)
ReactionRecords(log, u, e) ==
  {i \in DOMAIN log : /\ log[i].type = "reaction" /\ log[i].userId = u
                      /\ log[i].reaction = e}

AddedThenRemoved(log, u, e) ==
  LET idx == ReactionRecords(log, u, e)
  IN /\ \E i \in idx : log[i].action = "added"
     /\ \E i \in idx : /\ log[i].action = "removed"
                       /\ \A j \in idx : j <= i

Quiet == faults = 0 /\ \A q \in ReqIds : req[q].writes = {}

(* C37: when getReactions has answered from a unified log in which user u
   added emoji e and the last record of the pair removes it, with every
   write of the requests applied and the reactions path not holding the
   pair, the answer does not list u under e. *)
C37_RemovedUserNotListed ==
  \A r \in ReqIds, u \in Users, e \in Emojis :
    (/\ req[r].op = "getReactions" /\ Succeeded(r) /\ Quiet
     /\ req[r].seen = chat[req[r].challengeId].interactions
     /\ AddedThenRemoved(req[r].seen, u, e)
     /\ ~\E x \in chat[req[r].challengeId].reactions :
           x.userId = u /\ x.emoji = e)
    => ~\E i \in DOMAIN req[r].listed :
          req[r].listed[i].userId = u /\ req[r].listed[i].emoji = e

(* the other half of C37: a step only appends to the unified log *)
C37_LogKeepsHistory ==
  [][\A c \in ChallengeIds :
       /\ Len(chat'[c].interactions) >= Len(chat[c].interactions)
       /\ SubSeq(chat'[c].interactions, 1, Len(chat[c].interactions))
            = chat[c].interactions]_vars

SameMessage(x, y) ==
  /\ x.userId = y.userId /\ x.timestamp = y.timestamp
  /\ x.message = y.message

(* C38: when getMessages answers with success and no write is pending,
   every message of the legacy messages log is in the answer. *)
C38_LegacyMessageReturned ==
  [][\A r \in ReqIds :
       (/\ req[r].op = "getMessages" /\ Responds(r) /\ req'[r].code = 200
        /\ \A q \in ReqIds : req[q].writes = {})
       => LET legacy == chat[req[r].challengeId].messages
          IN \A i \in DOMAIN legacy :
               \E j \in DOMAIN req'[r].messages :
                 SameMessage(legacy[i], req'[r].messages[j])]_vars

(* C39: once a sendMessage has answered with success and its writes have
   ended, its message is in the unified log, tagged message, and in the
   legacy messages log. *)
C39_SentMessageInBothLogs ==
  \A r \in ReqIds :
    (req[r].op = "message" /\ Succeeded(r) /\ req[r].writes = {})
    => LET room == chat[req[r].challengeId]
           e == Entry("message", req[r].uid, "none", "none",
                      req[r].message, req[r].at)
       IN /\ \E i \in DOMAIN room.interactions : room.interactions[i] = e
          /\ \E i \in DOMAIN room.messages : SameMessage(room.messages[i], e)

====
